---- MODULE Spec2Model ----
(***************************************************************************)
(* Hard disk timing and cache simulation of src/disk/hdd.c: the zone       *)
(* table built by hdd_preset_apply / hdd_zones_init, the seek time         *)
(* estimator hdd_seek_get_time, the segmented read cache with read-ahead   *)
(* (hdd_readahead_update, hdd_timing_read) and the write cache             *)
(* (hdd_writecache_update, hdd_writecache_flush, hdd_timing_write).        *)
(*                                                                         *)
(* Times are doubles in the source; here they are whole microseconds       *)
(* (every division truncates).  uint32_t/uint64_t values are plain         *)
(* integers; the drives and addresses enumerated below keep every          *)
(* uint32_t value in range, and the one uint64_t subtraction that wraps    *)
(* in practice (tsc - start_time with start_time in the future) is         *)
(* modelled explicitly by ElapsedUs.                                       *)
(***************************************************************************)
EXTENDS Integers, Sequences, FiniteSets, TLC

\* ------------------------------------------------------------------ bounds
\* Number of calls (timing calls, seeks, preset applications) per behaviour.
MaxSteps == 2
\* Largest value of the cycle counter tsc the clock is advanced to.
MaxTsc == 400000
\* Length of the modelled zones[] and segments[] arrays.
MaxZones == 2
MaxSegments == 4
\* Number of reads of a sequential stream, and of an eviction sequence.
MaxStream == 5
MaxLru == 3
\* Number of timing calls of a behaviour of the cache alone.
MaxCache == 3
\* Number of calls of a behaviour that applies presets again.
MaxReapply == 3

\* --------------------------------------------------------------- constants
HDD_OVERHEAD_TIME == 50
\* Latency returned for a speed preset without zones (build without DO_FATAL).
NO_ZONES_TIME == 1000
\* hd->cache.write_size as set by hdd_preset_apply.
WRITE_CACHE_SIZE == 64
\* sizeof(hdd_speed_presets) / sizeof(hdd_preset_t)
hdd_preset_get_num == 416
\* cpuclock, in MHz: cycles of tsc per microsecond (an 8 MHz machine).
cpuclock_mhz == 8
\* Stand-in for a double too large to matter: +inf (division by a zero
\* sectors_per_track) and the microseconds of a wrapped uint64_t cycle
\* difference (about 2^64 / cpuclock * 10^6).
HUGE_USEC == 2000000000

\* The bus type of a drive that is not attached.  hdd.h, which defines it,
\* numbers the buses as cdrom.h does: DISABLED is 0.
HDD_BUS_DISABLED == 0

HDD_OP_SEEK == 0
HDD_OP_READ == 1
HDD_OP_WRITE == 2

\* ------------------------------------------------------------ preset table
\* Entries of hdd_speed_presets[], keyed by their index in the table:
\* 0 "ramdisk", 1 "1989_3500rpm", 2 "1992_3600rpm", 17 "C2233A".
hdd_speed_presets ==
    (0 :> [zones |-> 0, avg_spt |-> 0, heads |-> 0, rpm |-> 0,
           full_stroke_ms |-> 0, track_seek_ms |-> 0,
           rcache_num_seg |-> 16, rcache_seg_size |-> 128]) @@
    (1 :> [zones |-> 1, avg_spt |-> 35, heads |-> 2, rpm |-> 3500,
           full_stroke_ms |-> 40, track_seek_ms |-> 8,
           rcache_num_seg |-> 1, rcache_seg_size |-> 16]) @@
    (2 :> [zones |-> 1, avg_spt |-> 45, heads |-> 2, rpm |-> 3600,
           full_stroke_ms |-> 30, track_seek_ms |-> 6,
           rcache_num_seg |-> 4, rcache_seg_size |-> 16]) @@
    (17 :> [zones |-> 2, avg_spt |-> 126, heads |-> 1, rpm |-> 3600,
            full_stroke_ms |-> 33, track_seek_ms |-> 3,
            rcache_num_seg |-> 1, rcache_seg_size |-> 64])

\* ------------------------------------------------------------- arithmetic
\* ceil(a / b) of two non-negative numbers, b > 0.
CeilDiv(a, b) == (a + b - 1) \div b

Max(a, b) == IF a >= b THEN a ELSE b

Abs(a) == IF a >= 0 THEN a ELSE 0 - a

\* revolution_usec = 60.0 / rpm * 1000000.0
RevolutionUsec(rpm) == 60000000 \div rpm

\* spt_percent = -0.00341684 * zp^2 - 0.175811 * zp + 118.48 with
\* zp = i * 100 / zones, in units of 10^-5 percent (zp in quarters).
SptPercentE5(i, zones) ==
    LET p4 == (i * 400) \div zones
        q  == p4 * p4
    IN  11848000 - (175811 * p4) \div 40
          - ((341684 * (q \div 1000)) \div 16 + (341684 * (q % 1000)) \div 16000)

\* spt of zone i as the loop of hdd_preset_apply computes it; total_sectors is
\* the sum of the zone_sectors of the zones before i.  A zero divisor in the
\* last zone is outside the modelled drives (see PresetFits).
ZoneSpt(preset, i, cylinders_per_zone, disk_sectors, total_sectors) ==
    IF i < preset.zones - 1
      THEN CeilDiv(preset.avg_spt * SptPercentE5(i, preset.zones), 10000000)
      ELSE CeilDiv(disk_sectors - total_sectors, cylinders_per_zone * preset.heads)

Cylinders(preset, disk_sectors) ==
    CeilDiv(CeilDiv(disk_sectors, preset.heads), preset.avg_spt)

\* The loop of hdd_preset_apply over the zones: sets cylinders and
\* sectors_per_track of zones[i .. preset.zones-1].
RECURSIVE ApplyZones(_, _, _, _, _, _)
ApplyZone(zones, preset, i, cylinders_per_zone, disk_sectors, total_sectors, spt) ==
    ApplyZones([zones EXCEPT ![i].cylinders = cylinders_per_zone,
                             ![i].sectors_per_track = spt],
               preset, i + 1, cylinders_per_zone, disk_sectors,
               total_sectors + spt * cylinders_per_zone * preset.heads)

ApplyZones(zones, preset, i, cylinders_per_zone, disk_sectors, total_sectors) ==
    IF i >= preset.zones THEN zones
    ELSE ApplyZone(zones, preset, i, cylinders_per_zone, disk_sectors, total_sectors,
                   ZoneSpt(preset, i, cylinders_per_zone, disk_sectors, total_sectors))

\* zone->sector_time_usec = revolution_usec / sectors_per_track (+inf for 0).
SectorTimeUsec(rpm, sectors_per_track) ==
    IF sectors_per_track = 0 THEN HUGE_USEC
    ELSE RevolutionUsec(rpm) \div sectors_per_track

\* track += tracks - 1
NextZoneTrack(track, tracks) == track + tracks - 1

\* One pass of the loop of hdd_zones_init: zone i starts at lba and track;
\* tracks = zone->cylinders * phy_heads.
RECURSIVE hdd_zones_init_loop(_, _, _, _, _, _, _)
ZoneInit(zones, num_zones, phy_heads, rpm, i, lba, track, tracks) ==
    hdd_zones_init_loop(
        [zones EXCEPT ![i].start_sector = lba,
                      ![i].start_track = track,
                      ![i].sector_time_usec =
                          SectorTimeUsec(rpm, zones[i].sectors_per_track),
                      ![i].end_sector =
                          lba + tracks * zones[i].sectors_per_track - 1],
        num_zones, phy_heads, rpm, i + 1,
        lba + tracks * zones[i].sectors_per_track,
        NextZoneTrack(track, tracks))

hdd_zones_init_loop(zones, num_zones, phy_heads, rpm, i, lba, track) ==
    IF i >= num_zones THEN zones
    ELSE ZoneInit(zones, num_zones, phy_heads, rpm, i, lba, track,
                  zones[i].cylinders * phy_heads)

hdd_zones_init(hd) ==
    [hd EXCEPT !.zones = hdd_zones_init_loop(hd.zones, hd.num_zones, hd.phy_heads,
                                             hd.rpm, 0, 0, 0)]

\* hdd_cache_init: lba_addr of the segments and the write cache are not touched.
hdd_cache_init(hd) ==
    [hd EXCEPT !.cache.ra_segment = 0,
               !.cache.ra_ongoing = FALSE,
               !.cache.ra_start_time = 0,
               !.cache.segments =
                   [s \in DOMAIN hd.cache.segments |->
                       IF s < hd.cache.num_segments
                         THEN [hd.cache.segments[s] EXCEPT
                                 !.valid = FALSE, !.lru = 0, !.id = s,
                                 !.ra_addr = 0, !.host_addr = 0]
                         ELSE hd.cache.segments[s]]]

\* The part of hdd_preset_apply after "if (!hd->speed_preset) return;".
ApplySpeedModel(hd, preset, disk_sectors, cylinders) ==
    hdd_cache_init(hdd_zones_init(
        [hd EXCEPT
           !.phy_heads = preset.heads,
           !.rpm = preset.rpm,
           !.avg_rotation_lat_usec = RevolutionUsec(preset.rpm) \div 2,
           !.full_stroke_usec = preset.full_stroke_ms * 1000,
           !.head_switch_usec = preset.track_seek_ms * 1000,
           !.cyl_switch_usec = preset.track_seek_ms * 1000,
           !.cache.write_size = WRITE_CACHE_SIZE,
           !.num_zones = preset.zones,
           !.phy_cyl = cylinders,
           !.zones = ApplyZones(hd.zones, preset, 0, cylinders \div preset.zones,
                                disk_sectors, 0)]))

\* Variant: the return for preset 0 comes before the cache is sized.
ApplyIndexReturnsFirst(hd, sp, preset) ==
    IF sp = 0
      THEN [hd EXCEPT !.speed_preset = sp]
      ELSE ApplySpeedModel(
               [hd EXCEPT !.speed_preset = sp,
                          !.cache.num_segments = preset.rcache_num_seg,
                          !.cache.segment_size = preset.rcache_seg_size],
               preset, hd.tracks * hd.hpc * hd.spt,
               Cylinders(preset, hd.tracks * hd.hpc * hd.spt))

\* hdd_preset_apply once hd->speed_preset is sp, an index into the table.
ApplyIndex(hd, sp, preset) ==
    IF sp = 0
      THEN [hd EXCEPT !.speed_preset = sp,
                      !.cache.num_segments = preset.rcache_num_seg,
                      !.cache.segment_size = preset.rcache_seg_size]
      ELSE ApplySpeedModel(
               [hd EXCEPT !.speed_preset = sp,
                          !.cache.num_segments = preset.rcache_num_seg,
                          !.cache.segment_size = preset.rcache_seg_size],
               preset, hd.tracks * hd.hpc * hd.spt,
               Cylinders(preset, hd.tracks * hd.hpc * hd.spt))

\* if (hd->speed_preset >= hdd_preset_get_num()) hd->speed_preset = 0;
ClampPreset(sp) == IF sp >= hdd_preset_get_num THEN 0 ELSE sp

\* hdd_preset_apply on drive record hd (hd.speed_preset already configured).
hdd_preset_apply(hd) ==
    ApplyIndex(hd, ClampPreset(hd.speed_preset),
               hdd_speed_presets[ClampPreset(hd.speed_preset)])

\* ------------------------------------------------------------------ drives
\* Declared geometries (tracks, hpc, spt): 5, 150 and 260 sectors.
Geometries ==
    { [tracks |-> 5, hpc |-> 1, spt |-> 1],
      [tracks |-> 10, hpc |-> 1, spt |-> 15],
      [tracks |-> 20, hpc |-> 1, spt |-> 13] }

DiskSectors(g) == g.tracks * g.hpc * g.spt

\* Speed presets a drive is configured with; 500 is past the end of the table.
ConfiguredPresets == {0, 1, 2, 17, 500}

\* The preset/geometry pairs the model covers: the drive has at least one
\* cylinder per zone, so that the last zone's divisor is not zero (the
\* conversion of +inf to uint32_t is undefined), and the zones before the last
\* do not hold more sectors than the drive (disk_sectors - total_sectors does
\* not wrap).
RECURSIVE SectorsBefore(_, _, _)
SectorsBefore(preset, i, cpz) ==
    IF i = 0 THEN 0
    ELSE SectorsBefore(preset, i - 1, cpz)
           + ZoneSpt(preset, i - 1, cpz, 0, 0) * cpz * preset.heads

FitsZones(preset, disk_sectors, cpz) ==
    /\ cpz >= 1
    /\ SectorsBefore(preset, preset.zones - 1, cpz) <= disk_sectors

PresetFits(g, sp) ==
    IF sp = 0 \/ sp >= hdd_preset_get_num THEN TRUE
    ELSE IF sp \notin DOMAIN hdd_speed_presets THEN FALSE
    ELSE FitsZones(hdd_speed_presets[sp], DiskSectors(g),
                   Cylinders(hdd_speed_presets[sp], DiskSectors(g))
                       \div hdd_speed_presets[sp].zones)

\* hdd_init: memset(hdd, 0, sizeof(hdd)).
ZeroZone ==
    [cylinders |-> 0, sectors_per_track |-> 0, start_sector |-> 0,
     start_track |-> 0, end_sector |-> 0, sector_time_usec |-> 0]

ZeroSegment ==
    [id |-> 0, valid |-> FALSE, lba_addr |-> 0, host_addr |-> 0, ra_addr |-> 0,
     lru |-> 0]

ZeroDrive ==
    [bus_type |-> 0, fn |-> <<>>,
     speed_preset |-> 0, tracks |-> 0, hpc |-> 0, spt |-> 0,
     phy_heads |-> 0, rpm |-> 0, phy_cyl |-> 0, num_zones |-> 0,
     zones |-> [z \in 0 .. MaxZones - 1 |-> ZeroZone],
     avg_rotation_lat_usec |-> 0, full_stroke_usec |-> 0,
     head_switch_usec |-> 0, cyl_switch_usec |-> 0,
     cur_addr |-> 0, cur_track |-> 0, cur_cylinder |-> 0,
     cache |-> [num_segments |-> 0, segment_size |-> 0,
                segments |-> [s \in 0 .. MaxSegments - 1 |-> ZeroSegment],
                ra_ongoing |-> FALSE, ra_segment |-> 0, ra_start_time |-> 0,
                write_addr |-> 0, write_pending |-> 0, write_size |-> 0,
                write_start_time |-> 0]]

\* The drive as the configuration loader leaves it before hdd_preset_apply:
\* attached to a bus, with an image file name, geometry and speed preset.
ConfiguredDrive(g, sp) ==
    [ZeroDrive EXCEPT !.bus_type = 1, !.fn = <<"c">>,
                      !.tracks = g.tracks, !.hpc = g.hpc, !.spt = g.spt,
                      !.speed_preset = sp]

\* Variant: the geometry is refused only when all three numbers are zero.
hdd_is_valid_all_zero(hd) ==
    IF hd.bus_type = HDD_BUS_DISABLED THEN 0
    ELSE IF Len(hd.fn) = 0 THEN 0
    ELSE IF hd.tracks = 0 /\ hd.hpc = 0 /\ hd.spt = 0 THEN 0
    ELSE 1

\* hdd_is_valid(c) on hd = hdd[c]; strlen(fn) is the length of fn.
hdd_is_valid(hd) ==
    IF hd.bus_type = HDD_BUS_DISABLED THEN 0
    ELSE IF Len(hd.fn) = 0 THEN 0
    ELSE IF hd.tracks = 0 \/ hd.hpc = 0 \/ hd.spt = 0 THEN 0
    ELSE 1

\* ---------------------------------------------------------- seek estimator
\* Variant: the scan stops at the first zone that ends after dst_addr.
RECURSIVE FindZoneEndsAfter(_, _, _)
FindZoneEndsAfter(hd, dst_addr, i) ==
    IF i >= hd.num_zones - 1 \/ hd.zones[i].end_sector > dst_addr THEN i
    ELSE FindZoneEndsAfter(hd, dst_addr, i + 1)

\* Index of the zone the scan of hdd_seek_get_time ends on: the first zone
\* with end_sector >= dst_addr, the last zone when there is none.
RECURSIVE FindZone(_, _, _)
FindZone(hd, dst_addr, i) ==
    IF i >= hd.num_zones - 1 \/ hd.zones[i].end_sector >= dst_addr THEN i
    ELSE FindZone(hd, dst_addr, i + 1)

\* new_track = start_track + (dst_addr - start_sector) / sectors_per_track
NewTrack(zone, dst_addr) ==
    zone.start_track + ((dst_addr - zone.start_sector) \div zone.sectors_per_track)

\* Variant: the table with the rows as (same track, cylinder changed) ->
\* head switch and (track changed, cylinder changed) -> sector time.
ContinuousTimeTransposed(hd, zone, same_track, cylinder_diff) ==
    IF same_track
      THEN (IF cylinder_diff = 0 THEN zone.sector_time_usec
            ELSE hd.head_switch_usec)
    ELSE IF cylinder_diff = 0 THEN hd.cyl_switch_usec
    ELSE zone.sector_time_usec

\* Variant: every sequential access is charged the sector time.
ContinuousTimeSameTrack(hd, zone, same_track, cylinder_diff) ==
    zone.sector_time_usec

\* continuous_times[new_track == cur_track][!!cylinder_diff]
ContinuousTime(hd, zone, same_track, cylinder_diff) ==
    IF same_track THEN zone.sector_time_usec
    ELSE IF cylinder_diff = 0 THEN hd.head_switch_usec
    ELSE hd.cyl_switch_usec

\* Variant: the rotational latency is added whatever the operation.
DiscreteTimeAlwaysLatency(hd, operation, cylinder_diff) ==
    IF cylinder_diff = 0
      THEN (IF operation # HDD_OP_SEEK THEN hd.avg_rotation_lat_usec
            ELSE HDD_OVERHEAD_TIME)
      ELSE hd.cyl_switch_usec
             + (hd.full_stroke_usec * cylinder_diff) \div hd.phy_cyl
             + hd.avg_rotation_lat_usec

\* The else branch: times[operation != HDD_OP_SEEK], or the stroke.
DiscreteTime(hd, operation, cylinder_diff) ==
    IF cylinder_diff = 0
      THEN (IF operation # HDD_OP_SEEK THEN hd.avg_rotation_lat_usec
            ELSE HDD_OVERHEAD_TIME)
      ELSE hd.cyl_switch_usec
             + (hd.full_stroke_usec * cylinder_diff) \div hd.phy_cyl
             + (IF operation # HDD_OP_SEEK THEN hd.avg_rotation_lat_usec ELSE 0)

\* seek_time, with continuous already "continuous && sequential".
SeekTime(hd, zone, new_track, cylinder_diff, operation, continuous) ==
    IF continuous
      THEN ContinuousTime(hd, zone, new_track = hd.cur_track, cylinder_diff)
      ELSE DiscreteTime(hd, operation, cylinder_diff)

\* Variant: a seek that costs exactly its budget is turned down.
SeekCommitsStrict(seek_time, max_seek_time) ==
    max_seek_time = 0 \/ seek_time < max_seek_time

\* if (!max_seek_time || seek_time <= max_seek_time)
SeekCommits(seek_time, max_seek_time) ==
    max_seek_time = 0 \/ seek_time <= max_seek_time

\* Variant: a committed seek does not store the cylinder.
SeekResultKeepsCylinder(hd, dst_addr, new_track, seek_time, max_seek_time) ==
    [hd |-> IF SeekCommits(seek_time, max_seek_time)
              THEN [hd EXCEPT !.cur_addr = dst_addr,
                              !.cur_track = new_track]
              ELSE hd,
     t |-> seek_time, n |-> 1, stop |-> FALSE, trap |-> FALSE]

\* The end of hdd_seek_get_time: commit or not, return seek_time.
SeekResult(hd, dst_addr, new_track, seek_time, max_seek_time) ==
    [hd |-> IF SeekCommits(seek_time, max_seek_time)
              THEN [hd EXCEPT !.cur_addr = dst_addr,
                              !.cur_track = new_track,
                              !.cur_cylinder = new_track \div hd.phy_heads]
              ELSE hd,
     t |-> seek_time, n |-> 1, stop |-> FALSE, trap |-> FALSE]

SeekToTrack(hd, zone, dst_addr, new_track, operation, continuous, max_seek_time) ==
    SeekResult(hd, dst_addr, new_track,
               SeekTime(hd, zone, new_track,
                        Abs(hd.cur_cylinder - new_track \div hd.phy_heads),
                        operation, continuous /\ dst_addr = hd.cur_addr + 1),
               max_seek_time)

\* The division by sectors_per_track is an integer division: by zero it
\* traps and the process ends.
SeekInZone(hd, zone, dst_addr, operation, continuous, max_seek_time) ==
    IF zone.sectors_per_track = 0
      THEN [hd |-> hd, t |-> 0, n |-> 0, stop |-> FALSE, trap |-> TRUE]
      ELSE SeekToTrack(hd, zone, dst_addr, NewTrack(zone, dst_addr), operation,
                       continuous, max_seek_time)

\* Variant: only a negative zone count is turned away, as the text of the
\* fatal() message has it; with no zone the scan leaves zone unset.
hdd_seek_get_time_negative_only(hd, dst_addr, operation, continuous, max_seek_time) ==
    IF hd.speed_preset = 0
      THEN [hd |-> hd, t |-> HDD_OVERHEAD_TIME, n |-> 1, stop |-> FALSE,
            trap |-> FALSE]
    ELSE IF hd.num_zones < 0
      THEN [hd |-> hd, t |-> NO_ZONES_TIME, n |-> 1, stop |-> FALSE, trap |-> FALSE]
    ELSE SeekInZone(hd, hd.zones[FindZone(hd, dst_addr, 0)], dst_addr, operation,
                    continuous, max_seek_time)

\* hdd_seek_get_time: the drive after the call, the time t returned, and
\* trap: the call divided by zero.
hdd_seek_get_time(hd, dst_addr, operation, continuous, max_seek_time) ==
    IF hd.speed_preset = 0
      THEN [hd |-> hd, t |-> HDD_OVERHEAD_TIME, n |-> 1, stop |-> FALSE,
            trap |-> FALSE]
    ELSE IF hd.num_zones <= 0
      THEN [hd |-> hd, t |-> NO_ZONES_TIME, n |-> 1, stop |-> FALSE, trap |-> FALSE]
    ELSE SeekInZone(hd, hd.zones[FindZone(hd, dst_addr, 0)], dst_addr, operation,
                    continuous, max_seek_time)

\* ------------------------------------------------------------------ clock
\* elapsed_us = (double) (tsc - start_time) / cpuclock * 1000000.0, the
\* difference taken in uint64_t: it wraps when start_time is later than tsc.
ElapsedUs(now, start_time) ==
    IF now >= start_time THEN (now - start_time) \div cpuclock_mhz
    ELSE HUGE_USEC

\* (uint32_t) (seek_time * cpuclock / 1000000.0)
UsecToCycles(seek_time) == seek_time * cpuclock_mhz

\* A loop's running result: the drive, the accumulated seek_time t, the
\* number n of estimator calls added to it, stop (the loop has hit its
\* break) and the trap flag.  The passes of a loop are applied to it one
\* after the other; a pass after the break or a trap changes nothing.  To
\* keep the evaluation shallow the passes of a loop of n passes are split in
\* two halves, the second continuing from the result of the first.
Start(hd) == [hd |-> hd, t |-> 0, n |-> 0, stop |-> FALSE, trap |-> FALSE]

\* seek_time += hdd_seek_get_time(...): r after the call that returned c.
Charge(r, c, hd) ==
    [hd |-> hd, t |-> r.t + c.t, n |-> r.n + 1, stop |-> FALSE, trap |-> FALSE]

\* break
Break(r) == [r EXCEPT !.stop = TRUE]

Trapped(r) == [r EXCEPT !.trap = TRUE]

Done(r) == r.stop \/ r.trap

\* ------------------------------------------------------------- read-ahead
\* segment->ra_addr++
AdvanceReadAhead(hd, s) == [hd EXCEPT !.cache.segments[s].ra_addr = @ + 1]

\* One pass of the for loop of hdd_readahead_update on segment s; c is the
\* result of its seek.
ReadAheadCharge(r, c, s, elapsed_us) ==
    IF c.trap THEN Trapped(r)
    ELSE IF r.t + c.t > elapsed_us THEN Break(Charge(r, c, c.hd))
    ELSE Charge(r, c, AdvanceReadAhead(c.hd, s))

ReadAheadPass(r, s, elapsed_us) ==
    IF Done(r) THEN r
    ELSE ReadAheadCharge(r, hdd_seek_get_time(r.hd, r.hd.cache.segments[s].ra_addr,
                                              HDD_OP_READ, TRUE, elapsed_us - r.t),
                         s, elapsed_us)

\* for (i = 0; i < max_read_ahead; i++): passes passes from r.
RECURSIVE ReadAheadLoop(_, _, _, _)
ReadAheadLoop(r, s, passes, elapsed_us) ==
    IF Done(r) \/ passes <= 0 THEN r
    ELSE IF passes = 1 THEN ReadAheadPass(r, s, elapsed_us)
    ELSE ReadAheadLoop(ReadAheadLoop(r, s, passes \div 2, elapsed_us), s,
                       passes - passes \div 2, elapsed_us)

\* Variant: a window the read-ahead has passed restarts at ra_addr.
SlideToReadAheadCursor(seg, segment_size) ==
    IF seg.ra_addr > seg.lba_addr + segment_size
      THEN [seg EXCEPT !.lba_addr = seg.ra_addr]
      ELSE seg

\* if (ra_addr > lba_addr + segment_size) lba_addr += ra_addr - (lba_addr + segment_size)
SlideToReadAhead(seg, segment_size) ==
    IF seg.ra_addr > seg.lba_addr + segment_size
      THEN [seg EXCEPT !.lba_addr = @ + (seg.ra_addr - (seg.lba_addr + segment_size))]
      ELSE seg

\* Variant: a catch-up may read a whole segment ahead of ra_addr.
MaxReadAheadWholeSegment(seg, segment_size) == segment_size

\* max_read_ahead = (host_addr + segment_size) - ra_addr, an int32_t
MaxReadAhead(seg, segment_size) == (seg.host_addr + segment_size) - seg.ra_addr

ReadAheadSlide(r, s) ==
    IF r.trap THEN r
    ELSE [Start(r.hd) EXCEPT
            !.hd.cache.segments[s] = SlideToReadAhead(@, r.hd.cache.segment_size)]

hdd_readahead_update(hd, now) ==
    IF ~hd.cache.ra_ongoing THEN Start(hd)
    ELSE ReadAheadSlide(
             ReadAheadLoop(Start(hd), hd.cache.ra_segment,
                           MaxReadAhead(hd.cache.segments[hd.cache.ra_segment],
                                        hd.cache.segment_size),
                           ElapsedUs(now, hd.cache.ra_start_time)),
             hd.cache.ra_segment)

\* ------------------------------------------------------------ write cache
\* hdd->cache.write_addr++; hdd->cache.write_pending--;
DrainOne(hd) ==
    [hd EXCEPT !.cache.write_addr = @ + 1, !.cache.write_pending = @ - 1]

\* One pass of the while loop of hdd_writecache_flush; c is the result of
\* its seek.
FlushCharge(r, c) ==
    IF c.trap THEN Trapped(r) ELSE Charge(r, c, DrainOne(c.hd))

FlushPass(r) ==
    IF r.hd.cache.write_pending = 0 \/ r.trap THEN r
    ELSE FlushCharge(r, hdd_seek_get_time(r.hd, r.hd.cache.write_addr,
                                          HDD_OP_WRITE, TRUE, 0))

RECURSIVE FlushLoop(_, _)
FlushLoop(r, passes) ==
    IF r.trap \/ passes <= 0 THEN r
    ELSE IF passes = 1 THEN FlushPass(r)
    ELSE FlushLoop(FlushLoop(r, passes \div 2), passes - passes \div 2)

\* hdd_writecache_flush, continuing from the running result r: one pass per
\* pending sector.
hdd_writecache_flush(r) == FlushLoop(r, r.hd.cache.write_pending)

\* One pass of the while loop of hdd_writecache_update.
WriteDrainCharge(r, c, elapsed_us) ==
    IF c.trap THEN Trapped(r)
    ELSE IF r.t + c.t > elapsed_us THEN Break(Charge(r, c, c.hd))
    ELSE Charge(r, c, DrainOne(c.hd))

WriteDrainPass(r, elapsed_us) ==
    IF r.hd.cache.write_pending = 0 \/ Done(r) THEN r
    ELSE WriteDrainCharge(r, hdd_seek_get_time(r.hd, r.hd.cache.write_addr,
                                               HDD_OP_WRITE, TRUE,
                                               elapsed_us - r.t),
                          elapsed_us)

RECURSIVE WriteDrainLoop(_, _, _)
WriteDrainLoop(r, passes, elapsed_us) ==
    IF Done(r) \/ passes <= 0 THEN r
    ELSE IF passes = 1 THEN WriteDrainPass(r, elapsed_us)
    ELSE WriteDrainLoop(WriteDrainLoop(r, passes \div 2, elapsed_us),
                        passes - passes \div 2, elapsed_us)

\* The loop ends with the run drained or on its break: at most one pass per
\* pending sector.
hdd_writecache_update(hd, now) ==
    IF hd.cache.write_pending = 0 THEN Start(hd)
    ELSE WriteDrainLoop(Start(hd), hd.cache.write_pending,
                        ElapsedUs(now, hd.cache.write_start_time))

\* hdd_readahead_update(hdd); hdd_writecache_update(hdd);
WriteCatchUp(a, now) ==
    IF a.trap THEN a ELSE hdd_writecache_update(a.hd, now)

CatchUp(hd, now) == WriteCatchUp(hdd_readahead_update(hd, now), now)

\* Variant: the excess flush takes the sector off the pending run.
AdvanceWriteAddrDrains(hd) ==
    [hd EXCEPT !.cache.write_addr = @ + 1, !.cache.write_pending = @ - 1]

\* hdd->cache.write_addr++ of the excess flush: write_pending stays.
AdvanceWriteAddr(hd) == [hd EXCEPT !.cache.write_addr = @ + 1]

\* One pass of for (i = 0; i < flush_needed; i++) of hdd_timing_write.
FlushExcessCharge(r, c) ==
    IF c.trap THEN Trapped(r) ELSE Charge(r, c, AdvanceWriteAddr(c.hd))

FlushExcessPass(r) ==
    IF r.trap THEN r
    ELSE FlushExcessCharge(r, hdd_seek_get_time(r.hd, r.hd.cache.write_addr,
                                                HDD_OP_WRITE, TRUE, 0))

RECURSIVE FlushExcessLoop(_, _)
FlushExcessLoop(r, passes) ==
    IF r.trap \/ passes <= 0 THEN r
    ELSE IF passes = 1 THEN FlushExcessPass(r)
    ELSE FlushExcessLoop(FlushExcessLoop(r, passes \div 2), passes - passes \div 2)

\* if (write_pending > write_size) flush write_pending - write_size sectors
FlushExcess(r) ==
    FlushExcessLoop(r, r.hd.cache.write_pending - r.hd.cache.write_size)

\* Variant: the request is compared with the start of the pending run.
NeedsFlushFromStart(cache, addr) ==
    cache.write_pending # 0 /\ addr # cache.write_addr

\* if (write_pending && addr != write_addr + write_pending)
NeedsFlush(cache, addr) ==
    cache.write_pending # 0 /\ addr # cache.write_addr + cache.write_pending

FlushIfNeeded(hd, addr) ==
    IF NeedsFlush(hd.cache, addr) THEN hdd_writecache_flush(Start(hd))
    ELSE Start(hd)

\* if (!write_pending) write_addr = addr;  write_pending += len;
AddPending(r, addr, len) ==
    [r EXCEPT !.hd.cache.write_addr =
                  IF r.hd.cache.write_pending = 0 THEN addr ELSE @,
              !.hd.cache.write_pending = @ + len]

\* The record of a timing call: the drive after it, the time t returned, the
\* trap flag; mid, the drive after catch-up; flushed, the estimator calls of
\* the full write flush; charged, all estimator calls added to t; hit and
\* seg, whether a read hit and the index of its active_seg.
WriteResult(cu, f, e, now) ==
    [hd |-> [e.hd EXCEPT !.cache.write_start_time = now + UsecToCycles(e.t)],
     t |-> e.t, trap |-> cu.trap \/ f.trap \/ e.trap, mid |-> cu.hd,
     flushed |-> f.n, charged |-> e.n, hit |-> FALSE, seg |-> 0]

WriteAfterFlush(cu, f, addr, len, now) ==
    WriteResult(cu, f, FlushExcess(AddPending(f, addr, len)), now)

\* hdd->cache.ra_ongoing = 0;
WriteAfterCatchUp(cu, addr, len, now) ==
    WriteAfterFlush(cu, FlushIfNeeded([cu.hd EXCEPT !.cache.ra_ongoing = FALSE], addr),
                    addr, len, now)

\* Variant: the early return comes after "ra_ongoing = 0".
InstantaneousDisarms(hd) ==
    [hd |-> [hd EXCEPT !.cache.ra_ongoing = FALSE], t |-> HDD_OVERHEAD_TIME,
     trap |-> FALSE, mid |-> hd, flushed |-> 0, charged |-> 0, hit |-> FALSE,
     seg |-> 0]

Instantaneous(hd) ==
    [hd |-> hd, t |-> HDD_OVERHEAD_TIME, trap |-> FALSE, mid |-> hd,
     flushed |-> 0, charged |-> 0, hit |-> FALSE, seg |-> 0]

\* Variant: the session is disarmed before the catch-up runs.
hdd_timing_write_disarms_first(hd, addr, len, now) ==
    IF hd.speed_preset = 0 THEN Instantaneous(hd)
    ELSE WriteAfterCatchUp(CatchUp([hd EXCEPT !.cache.ra_ongoing = FALSE], now),
                           addr, len, now)

hdd_timing_write(hd, addr, len, now) ==
    IF hd.speed_preset = 0 THEN Instantaneous(hd)
    ELSE WriteAfterCatchUp(CatchUp(hd, now), addr, len, now)

\* ------------------------------------------------------------- read cache
\* if (segment->lba_addr <= addr && (segment->lba_addr + segment_size) >= addr)
IsHit(seg, segment_size, addr) ==
    seg.lba_addr <= addr /\ seg.lba_addr + segment_size >= addr

\* Variant: an invalid segment is passed over, not taken as candidate.
RECURSIVE ScanSegmentsSkipInvalid(_, _, _, _)
ScanSegmentsSkipInvalid(cache, addr, i, active) ==
    IF i >= cache.num_segments THEN [hit |-> FALSE, seg |-> active]
    ELSE IF ~cache.segments[i].valid
      THEN ScanSegmentsSkipInvalid(cache, addr, i + 1, active)
    ELSE IF IsHit(cache.segments[i], cache.segment_size, addr)
      THEN [hit |-> TRUE, seg |-> i]
    ELSE IF cache.segments[i].lru > cache.segments[active].lru
      THEN ScanSegmentsSkipInvalid(cache, addr, i + 1, i)
    ELSE ScanSegmentsSkipInvalid(cache, addr, i + 1, active)

\* The scan of hdd_timing_read over the segments from index i with the
\* eviction candidate active: the hit segment, or the candidate at the end.
RECURSIVE ScanSegments(_, _, _, _)
ScanSegments(cache, addr, i, active) ==
    IF i >= cache.num_segments THEN [hit |-> FALSE, seg |-> active]
    ELSE IF ~cache.segments[i].valid THEN ScanSegments(cache, addr, i + 1, i)
    ELSE IF IsHit(cache.segments[i], cache.segment_size, addr)
      THEN [hit |-> TRUE, seg |-> i]
    ELSE IF cache.segments[i].lru > cache.segments[active].lru
      THEN ScanSegments(cache, addr, i + 1, i)
    ELSE ScanSegments(cache, addr, i + 1, active)

\* The sector loops of hdd_timing_read: count sectors are charged one by one
\* from the segment's ra_addr, the first one with the given continuous flag
\* (hit extension: 1; miss: i != 0, so 0), the others continuous.
ReadCharge(r, c, s) ==
    IF c.trap THEN Trapped(r) ELSE Charge(r, c, AdvanceReadAhead(c.hd, s))

ReadPass(r, s, continuous) ==
    IF r.trap THEN r
    ELSE ReadCharge(r, hdd_seek_get_time(r.hd, r.hd.cache.segments[s].ra_addr,
                                         HDD_OP_READ, continuous, 0),
                    s)

RECURSIVE ReadSectors(_, _, _, _)
ReadSectors(r, s, count, continuous) ==
    IF r.trap \/ count <= 0 THEN r
    ELSE IF count = 1 THEN ReadPass(r, s, continuous)
    ELSE ReadSectors(ReadSectors(r, s, count \div 2, continuous), s,
                     count - count \div 2, TRUE)

\* Variant: a window that is too short is moved to start at addr.
SlideToRequestStart(seg, segment_size, addr, len) ==
    IF addr + len > seg.lba_addr + segment_size
      THEN [seg EXCEPT !.lba_addr = addr]
      ELSE seg

\* if (addr + len > lba_addr + segment_size) lba_addr += (addr + len) - (lba_addr + segment_size)
SlideToRequest(seg, segment_size, addr, len) ==
    IF addr + len > seg.lba_addr + segment_size
      THEN [seg EXCEPT !.lba_addr = @ + ((addr + len) - (seg.lba_addr + segment_size))]
      ELSE seg

HitSlide(r, s, addr, len) ==
    [r EXCEPT !.hd.cache.segments[s] =
                 SlideToRequest(@, r.hd.cache.segment_size, addr, len)]

\* Cache HIT on segment s; r is the running result after the write flush.
CacheHit(r, s, addr, len) ==
    HitSlide(ReadSectors([r EXCEPT !.hd.cache.segments[s].host_addr = addr], s,
                         (addr + len) - r.hd.cache.segments[s].ra_addr, TRUE),
             s, addr, len)

\* Variant: every sector of a miss is charged as a continuous access.
CacheMissAllContinuous(r, s, addr, len) ==
    ReadSectors([r EXCEPT !.hd.cache.segments[s].lba_addr = addr,
                          !.hd.cache.segments[s].valid = TRUE,
                          !.hd.cache.segments[s].host_addr = addr,
                          !.hd.cache.segments[s].ra_addr = addr],
                s, len, TRUE)

\* Variant: ra_addr of the re-used segment is not reset.
CacheMissKeepsReadAhead(r, s, addr, len) ==
    ReadSectors([r EXCEPT !.hd.cache.segments[s].lba_addr = addr,
                          !.hd.cache.segments[s].valid = TRUE,
                          !.hd.cache.segments[s].host_addr = addr],
                s, len, FALSE)

\* Cache MISS: segment s is re-initialised and len sectors are charged.
CacheMiss(r, s, addr, len) ==
    ReadSectors([r EXCEPT !.hd.cache.segments[s].lba_addr = addr,
                          !.hd.cache.segments[s].valid = TRUE,
                          !.hd.cache.segments[s].host_addr = addr,
                          !.hd.cache.segments[s].ra_addr = addr],
                s, len, FALSE)

\* Variant: the winning segment's counter is incremented like the others.
UpdateLruNoReset(cache, s) ==
    [cache EXCEPT !.segments =
        [i \in DOMAIN cache.segments |->
            IF i < cache.num_segments
              THEN [cache.segments[i] EXCEPT !.lru = @ + 1]
            ELSE cache.segments[i]]]

\* Variant: the other segments' counters are not incremented.
UpdateLruWinnerOnly(cache, s) ==
    [cache EXCEPT !.segments[s].lru = 0]

\* update_lru: every segment's lru++, then active_seg->lru = 0.
UpdateLru(cache, s) ==
    [cache EXCEPT !.segments =
        [i \in DOMAIN cache.segments |->
            IF i = s THEN [cache.segments[i] EXCEPT !.lru = 0]
            ELSE IF i < cache.num_segments
              THEN [cache.segments[i] EXCEPT !.lru = @ + 1]
            ELSE cache.segments[i]]]

\* Variant: the session is armed on the first segment of the cache.
ArmReadAheadFirstSegment(cache, s, start_time) ==
    [cache EXCEPT !.ra_ongoing = TRUE,
                  !.ra_segment = cache.segments[0].id,
                  !.ra_start_time = start_time]

\* ra_ongoing = 1; ra_segment = active_seg->id; ra_start_time = tsc + cycles
ArmReadAhead(cache, s, start_time) ==
    [cache EXCEPT !.ra_ongoing = TRUE,
                  !.ra_segment = cache.segments[s].id,
                  !.ra_start_time = start_time]

ReadResult(cu, f, scan, x, now) ==
    [hd |-> [x.hd EXCEPT !.cache = ArmReadAhead(UpdateLru(@, scan.seg), scan.seg,
                                                now + UsecToCycles(x.t))],
     t |-> x.t, trap |-> cu.trap \/ f.trap \/ x.trap, mid |-> cu.hd,
     flushed |-> f.n, charged |-> x.n, hit |-> scan.hit, seg |-> scan.seg]

ReadAfterScan(cu, f, scan, addr, len, now) ==
    ReadResult(cu, f, scan,
               IF scan.hit THEN CacheHit(f, scan.seg, addr, len)
               ELSE CacheMiss(f, scan.seg, addr, len),
               now)

ReadAfterFlush(cu, f, addr, len, now) ==
    ReadAfterScan(cu, f, ScanSegments(f.hd.cache, addr, 0, 0), addr, len, now)

\* seek_time += hdd_writecache_flush(hdd);
ReadAfterCatchUp(cu, addr, len, now) ==
    ReadAfterFlush(cu, hdd_writecache_flush(Start(cu.hd)), addr, len, now)

hdd_timing_read(hd, addr, len, now) ==
    IF hd.speed_preset = 0 THEN Instantaneous(hd)
    ELSE ReadAfterCatchUp(CatchUp(hd, now), addr, len, now)

\* ------------------------------------------------------------ state machine
VARIABLES
    hdd,      \* the drive unit, a hard_disk_t
    tsc,      \* the cycle counter
    ticked,   \* the clock moved since the last call
    steps,    \* calls made so far
    trapped,  \* a call divided by zero: the process has ended
    last,     \* the last call: its arguments (preset: the speed preset
              \* configured for an application), its result, the drive
              \* before it (pre) and after its catch-up (mid), and whether
              \* the clock moved since the call before it (gap)
    trail     \* the calls made so far, oldest first: op, addr, len, seg,
              \* preset

vars == <<hdd, tsc, ticked, steps, trapped, last, trail>>

NoCall ==
    [op |-> "none", addr |-> 0, len |-> 0, operation |-> 0, continuous |-> FALSE,
     max_seek_time |-> 0, cost |-> 0, now |-> 0, pre |-> ZeroDrive,
     mid |-> ZeroDrive, hit |-> FALSE, seg |-> 0, flushed |-> 0, charged |-> 0,
     preset |-> 0, gap |-> FALSE]

\* The machine starts: hdd_preset_apply on the configured drive, tsc = 0.
Started(hd) ==
    /\ hdd = hd
    /\ tsc = 0
    /\ ticked = FALSE
    /\ steps = 0
    /\ trapped = FALSE
    /\ last = NoCall
    /\ trail = <<>>

Init ==
    \E g \in Geometries, sp \in ConfiguredPresets :
        /\ PresetFits(g, sp)
        /\ Started(hdd_preset_apply(ConfiguredDrive(g, sp)))

\* Sector addresses the controller asks for: inside the declared geometry.
TotalSectors(hd) == hd.tracks * hd.hpc * hd.spt

Addrs == {0, 1, 3, 38, 150}

\* Seeks are tried at a sector next to the head's first position and at the
\* first sector of the second track of the 150-sector drive with preset 2.
SeekAddrs == {1, 38}

ReadLens == {1, 17}

WriteLens == {1, 65}

DriveAddrs(hd) == {a \in Addrs : a < TotalSectors(hd)}

\* A call returns with result r unless it divided by zero, which ends the
\* process; call is its record for last.
Finish(r, call) ==
    /\ steps' = steps + 1
    /\ ticked' = FALSE
    /\ tsc' = tsc
    /\ trapped' = r.trap
    /\ hdd' = IF r.trap THEN hdd ELSE r.hd
    /\ last' = IF r.trap THEN last ELSE [call EXCEPT !.gap = ticked]
    /\ trail' = IF r.trap THEN trail
                ELSE Append(trail, [op |-> call.op, addr |-> call.addr,
                                    len |-> call.len, seg |-> call.seg,
                                    preset |-> call.preset])

CanCall == steps < MaxSteps /\ ~trapped

\* The preset is changed in the configuration and applied again (a reset of
\* the emulated machine); the drive array is not cleared in between.
FinishApply(sp) ==
    /\ PresetFits([tracks |-> hdd.tracks, hpc |-> hdd.hpc, spt |-> hdd.spt], sp)
    /\ Finish([hd |-> hdd_preset_apply([hdd EXCEPT !.speed_preset = sp]),
               trap |-> FALSE],
              [NoCall EXCEPT !.op = "apply", !.preset = sp, !.pre = hdd,
                             !.now = tsc])

ApplyPreset(sp) == CanCall /\ FinishApply(sp)

\* Budgets tried for a seek of cost c: none, c itself and just under it.
SeekBudgets(c) == {0, c} \cup (IF c > 1 THEN {c - 1} ELSE {})

FinishSeek(r, dst_addr, operation, continuous, max_seek_time) ==
    Finish(r, [NoCall EXCEPT !.op = "seek", !.addr = dst_addr,
                             !.operation = operation, !.continuous = continuous,
                             !.max_seek_time = max_seek_time,
                             !.cost = r.t, !.pre = hdd, !.now = tsc])

EstimateSeek(dst_addr, operation, continuous, max_seek_time) ==
    /\ CanCall
    /\ FinishSeek(hdd_seek_get_time(hdd, dst_addr, operation, continuous,
                                    max_seek_time),
                  dst_addr, operation, continuous, max_seek_time)

FinishTiming(r, op, addr, len) ==
    Finish(r, [NoCall EXCEPT !.op = op, !.addr = addr, !.len = len,
                             !.cost = r.t, !.pre = hdd, !.mid = r.mid,
                             !.now = tsc, !.hit = r.hit, !.seg = r.seg,
                             !.flushed = r.flushed, !.charged = r.charged])

TimingRead(addr, len) ==
    /\ CanCall
    /\ FinishTiming(hdd_timing_read(hdd, addr, len, tsc), "read", addr, len)

TimingWrite(addr, len) ==
    /\ CanCall
    /\ FinishTiming(hdd_timing_write(hdd, addr, len, tsc), "write", addr, len)

\* The emulated machine runs on: tsc advances.  The clock is only ever read
\* against ra_start_time and write_start_time, so it is advanced only while
\* a read-ahead session or a write run is there to catch up, and once
\* between two calls.
TickCycles == {4000, 80000}

Advance(d) ==
    /\ ~ticked /\ ~trapped
    /\ hdd.cache.ra_ongoing \/ hdd.cache.write_pending # 0
    /\ d > 0 /\ tsc + d <= MaxTsc
    /\ tsc' = tsc + d
    /\ ticked' = TRUE
    /\ UNCHANGED <<hdd, steps, trapped, last, trail>>

\* Clock advances tried: the fixed ones, and up to exactly the start time of
\* the read-ahead session or of the write run.
Ticks(cache) ==
    TickCycles \cup {cache.ra_start_time - tsc, cache.write_start_time - tsc}

Tick(d) == steps < MaxSteps /\ Advance(d)

Next ==
    \/ \E sp \in ConfiguredPresets : ApplyPreset(sp)
    \/ \E a \in SeekAddrs \cap DriveAddrs(hdd),
          o \in {HDD_OP_SEEK, HDD_OP_READ, HDD_OP_WRITE},
          c \in BOOLEAN :
          \E m \in SeekBudgets(hdd_seek_get_time(hdd, a, o, c, 0).t) :
              EstimateSeek(a, o, c, m)
    \/ \E a \in DriveAddrs(hdd), l \in ReadLens : TimingRead(a, l)
    \/ \E a \in DriveAddrs(hdd), l \in WriteLens : TimingWrite(a, l)
    \/ \E d \in Ticks(hdd.cache) : Tick(d)

Spec == Init /\ [][Next]_vars

\* ------------------------------------------------- sequential read stream
\* A one-zone drive right after hdd_preset_apply is read sector by sector
\* from sector 0: the k-th call is TimingRead(k, 1); the clock may advance
\* between two reads.
OneZonePresets == {sp \in DOMAIN hdd_speed_presets : hdd_speed_presets[sp].zones = 1}

InitStream ==
    \E g \in Geometries, sp \in OneZonePresets :
        /\ PresetFits(g, sp)
        /\ Started(hdd_preset_apply(ConfiguredDrive(g, sp)))

StreamRead ==
    /\ steps < MaxStream /\ ~trapped
    /\ steps < TotalSectors(hdd)
    /\ FinishTiming(hdd_timing_read(hdd, steps, 1, tsc), "read", steps, 1)

StreamTick(d) == steps < MaxStream /\ Advance(d)

NextStream ==
    \/ StreamRead
    \/ \E d \in Ticks(hdd.cache) : StreamTick(d)

SpecStream == InitStream /\ [][NextStream]_vars

\* ------------------------------------------------------ eviction sequences
\* No entry of hdd_speed_presets[] has 2 read-cache segments (the table has
\* 1, 3, 4, 8 and 16).  The two-segment cache is the drive of preset 2 with
\* cache.num_segments set to 2 in place of the table's 4 before
\* hdd_cache_init runs; hdd_timing_read reads the count from that field only.
TwoSegments(hd) ==
    hdd_cache_init([hd EXCEPT !.cache.num_segments = 2])

InitLRU ==
    \E g \in Geometries :
        /\ PresetFits(g, 2)
        /\ Started(TwoSegments(hdd_preset_apply(ConfiguredDrive(g, 2))))

\* Read addresses 17 or more apart (segment_size is 16), and lengths up to
\* a whole segment.
LruAddrs == {0, 17, 40, 100}

LruLens == {1, 16}

LruRead(addr, len) ==
    /\ steps < MaxLru /\ ~trapped
    /\ FinishTiming(hdd_timing_read(hdd, addr, len, tsc), "read", addr, len)

LruTick(d) == steps < MaxLru /\ Advance(d)

NextLRU ==
    \/ \E a \in {x \in LruAddrs : x < TotalSectors(hdd)}, l \in LruLens :
          LruRead(a, l)
    \/ \E d \in Ticks(hdd.cache) : LruTick(d)

SpecLRU == InitLRU /\ [][NextLRU]_vars

\* --------------------------------------------------------- the cache alone
\* Timing calls and clock advances only, one call deeper than Spec, on the
\* 150-sector drive with the one-segment preset 1 and the four-segment
\* preset 2.  Address 16 is the end lba_addr + segment_size of the window
\* loaded at 0.
CacheAddrs == {0, 1, 16, 38}

InitCache ==
    \E sp \in OneZonePresets :
        Started(hdd_preset_apply(
                    ConfiguredDrive([tracks |-> 10, hpc |-> 1, spt |-> 15], sp)))

CacheRead(addr, len) ==
    /\ steps < MaxCache /\ ~trapped
    /\ FinishTiming(hdd_timing_read(hdd, addr, len, tsc), "read", addr, len)

CacheWrite(addr, len) ==
    /\ steps < MaxCache /\ ~trapped
    /\ FinishTiming(hdd_timing_write(hdd, addr, len, tsc), "write", addr, len)

CacheTick(d) == steps < MaxCache /\ Advance(d)

NextCache ==
    \/ \E a \in CacheAddrs, l \in ReadLens : CacheRead(a, l)
    \/ \E a \in CacheAddrs : CacheWrite(a, 1)
    \/ \E d \in Ticks(hdd.cache) : CacheTick(d)

SpecCache == InitCache /\ [][NextCache]_vars

\* ------------------------------------------------- presets applied again
\* The 150-sector drive with any configured preset; timing calls, seeks and
\* applications of another preset, three calls deep.  Sector 149 is the last
\* one of the drive.
ReapplyAddrs == {0, 149}

InitReapply ==
    \E sp \in ConfiguredPresets :
        /\ PresetFits([tracks |-> 10, hpc |-> 1, spt |-> 15], sp)
        /\ Started(hdd_preset_apply(
                       ConfiguredDrive([tracks |-> 10, hpc |-> 1, spt |-> 15], sp)))

CanReapply == steps < MaxReapply /\ ~trapped

Reapply(sp) == CanReapply /\ FinishApply(sp)

ReapplySeek(dst_addr, operation) ==
    /\ CanReapply
    /\ FinishSeek(hdd_seek_get_time(hdd, dst_addr, operation, FALSE, 0),
                  dst_addr, operation, FALSE, 0)

ReapplyRead(addr) ==
    /\ CanReapply
    /\ FinishTiming(hdd_timing_read(hdd, addr, 1, tsc), "read", addr, 1)

ReapplyWrite(addr) ==
    /\ CanReapply
    /\ FinishTiming(hdd_timing_write(hdd, addr, 1, tsc), "write", addr, 1)

ReapplyTick(d) == steps < MaxReapply /\ Advance(d)

NextReapply ==
    \/ \E sp \in ConfiguredPresets : Reapply(sp)
    \/ \E o \in {HDD_OP_SEEK, HDD_OP_READ} : ReapplySeek(38, o)
    \/ \E a \in ReapplyAddrs : ReapplyRead(a)
    \/ \E a \in ReapplyAddrs : ReapplyWrite(a)
    \/ \E d \in Ticks(hdd.cache) : ReapplyTick(d)

SpecReapply == InitReapply /\ [][NextReapply]_vars

\* ------------------------------------------- before the preset is applied
\* The drive as the configuration loader leaves it: geometry and
\* speed_preset set, everything else as hdd_init cleared it (no zones).  It
\* is asked for seek times, and the controller applies the configured
\* preset.
InitConfigured ==
    \E g \in Geometries, sp \in ConfiguredPresets : Started(ConfiguredDrive(g, sp))

NextConfigured ==
    \/ ApplyPreset(hdd.speed_preset)
    \/ \E a \in SeekAddrs \cap DriveAddrs(hdd),
          o \in {HDD_OP_SEEK, HDD_OP_READ, HDD_OP_WRITE},
          c \in BOOLEAN :
          \E m \in SeekBudgets(hdd_seek_get_time(hdd, a, o, c, 0).t) :
              EstimateSeek(a, o, c, m)

SpecConfigured == InitConfigured /\ [][NextConfigured]_vars

\* --------------------------------------------------------- drive validity
\* Drive table entries as a configuration file can give them: any bus type,
\* with or without a file name, any of the geometry numbers zero or not.
\* hdd_is_valid is asked about the entry.
BusTypes == 0 .. 2

FileNames == {<<>>, <<"c">>, <<"c", "d">>}

GeometryNumbers == {0, 1, 17}

InitValid ==
    \E b \in BusTypes, f \in FileNames, t \in GeometryNumbers,
       h \in GeometryNumbers, n \in GeometryNumbers :
        Started([ZeroDrive EXCEPT !.bus_type = b, !.fn = f, !.tracks = t,
                                  !.hpc = h, !.spt = n])

IsValid ==
    /\ CanCall
    /\ Finish([hd |-> hdd, trap |-> FALSE],
              [NoCall EXCEPT !.op = "valid", !.cost = hdd_is_valid(hdd),
                             !.pre = hdd, !.now = tsc])

NextValid == IsValid

SpecValid == InitValid /\ [][NextValid]_vars

\* ---------------------------------------------------------- seek sequences
\* A drive right after hdd_preset_apply is asked for seek times only, as a
\* controller without a cache model does.  The destinations are the last
\* sector of a track and the first of the next, with and without a change
\* of cylinder (37/38 and 75/76 with 38 sectors per track and 2 heads), the
\* two sides of a zone boundary (149/150), and the sector after the last
\* zone of the 260-sector drive.
MaxSeeks == 2

SeekDests == {1, 37, 38, 75, 76, 149, 150, 260}

InitSeek ==
    \E g \in Geometries, sp \in ConfiguredPresets :
        /\ PresetFits(g, sp)
        /\ Started(hdd_preset_apply(ConfiguredDrive(g, sp)))

SeekTo(dst_addr, operation, continuous, max_seek_time) ==
    /\ steps < MaxSeeks /\ ~trapped
    /\ FinishSeek(hdd_seek_get_time(hdd, dst_addr, operation, continuous,
                                    max_seek_time),
                  dst_addr, operation, continuous, max_seek_time)

NextSeek ==
    \E a \in {d \in SeekDests : d <= TotalSectors(hdd)},
       o \in {HDD_OP_SEEK, HDD_OP_READ, HDD_OP_WRITE},
       c \in BOOLEAN :
       \E m \in SeekBudgets(hdd_seek_get_time(hdd, a, o, c, 0).t) :
           SeekTo(a, o, c, m)

SpecSeek == InitSeek /\ [][NextSeek]_vars

\* ------------------------------------------------------------------ claims
MechanicalState(hd) == <<hd.cur_addr, hd.cur_track, hd.cur_cylinder>>

TrackOf(hd, zone, dst_addr) ==
    zone.start_track + ((dst_addr - zone.start_sector) \div zone.sectors_per_track)

\* The address, track and cylinder the zone table gives dst_addr.
DestinationIn(hd, zone, dst_addr) ==
    <<dst_addr, TrackOf(hd, zone, dst_addr),
      TrackOf(hd, zone, dst_addr) \div hd.phy_heads>>

Destination(hd, dst_addr) ==
    DestinationIn(hd, hd.zones[FindZone(hd, dst_addr, 0)], dst_addr)

SpeedModel(hd) == hd.speed_preset # 0 /\ hd.num_zones > 0

\* The cost of a seek as the second and third bullets of the estimator give
\* it, from the drive's fields.
ExpectedCost(hd, dst_addr, operation, continuous, track, cylinder_diff) ==
    IF continuous /\ dst_addr = hd.cur_addr + 1
      THEN (IF track = hd.cur_track
              THEN hd.zones[FindZone(hd, dst_addr, 0)].sector_time_usec
            ELSE IF cylinder_diff = 0 THEN hd.head_switch_usec
            ELSE hd.cyl_switch_usec)
    ELSE IF cylinder_diff = 0
      THEN (IF operation = HDD_OP_SEEK THEN HDD_OVERHEAD_TIME
            ELSE hd.avg_rotation_lat_usec)
    ELSE hd.cyl_switch_usec + (hd.full_stroke_usec * cylinder_diff) \div hd.phy_cyl
           + (IF operation = HDD_OP_SEEK THEN 0 ELSE hd.avg_rotation_lat_usec)

SeekCost(hd, dst_addr, operation, continuous, dest) ==
    ExpectedCost(hd, dst_addr, operation, continuous, dest[2],
                 Abs(hd.cur_cylinder - dest[3]))

AdmissionControl(cost, dest) ==
    /\ last.cost = cost
    /\ (last.max_seek_time # 0 /\ cost > last.max_seek_time)
          => MechanicalState(hdd) = MechanicalState(last.pre)
    /\ (last.max_seek_time = 0 \/ last.max_seek_time = cost)
          => MechanicalState(hdd) = dest

\* C1: a seek on a drive with a speed model whose cost exceeds a nonzero
\* max_seek_time leaves cur_addr, cur_track and cur_cylinder unchanged and
\* still returns the cost; a seek with max_seek_time equal to the cost, or 0,
\* moves them to the destination's address, track and cylinder.
C1_AdmissionControl ==
    (last.op = "seek" /\ SpeedModel(last.pre)) =>
        AdmissionControl(SeekCost(last.pre, last.addr, last.operation,
                                  last.continuous,
                                  Destination(last.pre, last.addr)),
                         Destination(last.pre, last.addr))

\* A seek one microsecond over budget was turned down: the head stayed.
C1_Witness ==
    /\ last.op = "seek" /\ SpeedModel(last.pre)
    /\ last.max_seek_time = last.cost - 1
    /\ last.max_seek_time > 0
    /\ Destination(last.pre, last.addr) # MechanicalState(last.pre)
    /\ MechanicalState(hdd) = MechanicalState(last.pre)

\* Sectors of zone z: cylinders * heads * sectors_per_track.
ZoneSectors(hd, z) ==
    hd.zones[z].cylinders * hd.phy_heads * hd.zones[z].sectors_per_track

RECURSIVE SumZoneSectors(_, _)
SumZoneSectors(hd, n) ==
    IF n = 0 THEN 0 ELSE SumZoneSectors(hd, n - 1) + ZoneSectors(hd, n - 1)

ZonesContiguous(hd) ==
    /\ hd.zones[0].start_sector = 0
    /\ \A z \in 0 .. hd.num_zones - 2 :
          /\ hd.zones[z].end_sector + 1 = hd.zones[z + 1].start_sector
          /\ hd.zones[z].start_sector < hd.zones[z + 1].start_sector

\* C2: with a speed model applied, the zones' [start_sector, end_sector]
\* ranges partition [0, tracks * hpc * spt): they are contiguous from sector
\* 0, their sectors add up to the declared total, and the last zone ends at
\* the declared total - 1.
C2_ZoneCoverage ==
    SpeedModel(hdd) =>
        /\ ZonesContiguous(hdd)
        /\ SumZoneSectors(hdd, hdd.num_zones) = TotalSectors(hdd)
        /\ hdd.zones[hdd.num_zones - 1].end_sector = TotalSectors(hdd) - 1

\* C3: with a speed model applied, zone 0 starts at sector 0, the zones are
\* ordered by increasing start_sector, each zone ends right before the next
\* one starts, and no zone ends before it starts.
C3_ZoneOrder ==
    SpeedModel(hdd) =>
        /\ ZonesContiguous(hdd)
        /\ \A z \in 0 .. hdd.num_zones - 1 :
              hdd.zones[z].start_sector <= hdd.zones[z].end_sector

\* C4: with a speed model applied, every zone has sectors_per_track >= 1 and
\* a positive, finite sector_time_usec.
C4_SectorTimePositive ==
    SpeedModel(hdd) =>
        \A z \in 0 .. hdd.num_zones - 1 :
            /\ hdd.zones[z].sectors_per_track >= 1
            /\ hdd.zones[z].sector_time_usec > 0
            /\ hdd.zones[z].sector_time_usec < HUGE_USEC

WriteCoalescing(run) ==
    IF last.addr = run.write_addr + run.write_pending
      THEN /\ last.flushed = 0
           /\ hdd.cache.write_pending = run.write_pending + last.len
           /\ (run.write_pending + last.len <= run.write_size)
                 => /\ last.cost = 0
                    /\ hdd.cache.write_addr = run.write_addr
      ELSE /\ last.flushed = run.write_pending
           /\ last.cost > 0
           /\ hdd.cache.write_pending = last.len
           /\ hdd.cache.write_addr = last.addr + Max(0, last.len - run.write_size)
           /\ last.charged = last.flushed + Max(0, last.len - run.write_size)

\* C5: a write that finds a pending run after catch-up and continues it
\* flushes nothing of it and adds len to write_pending, at cost 0 and with
\* write_addr unchanged while the run stays within write_size; a write at any
\* other address first flushes the whole run, one charged estimator call per
\* pending sector, and starts a new run of len sectors at its address.
C5_WriteCoalescing ==
    (last.op = "write" /\ SpeedModel(last.pre) /\ last.mid.cache.write_pending > 0)
        => WriteCoalescing(last.mid.cache)

\* A contiguous write was coalesced at no cost into the run it found.
C5_Witness ==
    /\ last.op = "write" /\ SpeedModel(last.pre)
    /\ last.mid.cache.write_pending > 0
    /\ last.addr = last.mid.cache.write_addr + last.mid.cache.write_pending
    /\ last.cost = 0
    /\ hdd.cache.write_pending = last.mid.cache.write_pending + last.len

\* C6: after a TimingWrite has returned, write_pending <= write_size.
C6_WriteCapacity ==
    (last.op = "write" /\ SpeedModel(last.pre)) =>
        hdd.cache.write_pending <= hdd.cache.write_size

\* The call repeats the TimingRead before it, with no clock tick in between.
RepeatedRead ==
    /\ last.op = "read" /\ SpeedModel(last.pre)
    /\ Len(trail) >= 2
    /\ trail[Len(trail) - 1].op = "read"
    /\ trail[Len(trail) - 1].addr = last.addr
    /\ trail[Len(trail) - 1].len = last.len
    /\ ~last.gap

\* C7: a TimingRead(A, L) repeated at once, with no clock time elapsed and
\* no write in between, is a hit that charges no sector: cost 0, mechanical
\* position unchanged.
C7_RepeatedReadFree ==
    RepeatedRead =>
        /\ last.hit
        /\ last.cost = 0
        /\ MechanicalState(hdd) = MechanicalState(last.pre)

\* The calls so far are TimingRead(0, 1), TimingRead(1, 1), ... on a one-zone
\* drive whose caches were reset by the hdd_preset_apply of Init.
IsStream ==
    /\ SpeedModel(hdd) /\ hdd.num_zones = 1
    /\ Len(trail) >= 1
    /\ \A k \in 1 .. Len(trail) :
          trail[k].op = "read" /\ trail[k].addr = k - 1 /\ trail[k].len = 1

\* Sector k was read ahead by the time the call looked it up.
Covered(hd, s, k) == hd.cache.segments[s].valid /\ hd.cache.segments[s].ra_addr > k

StreamCost(mid) ==
    IF Len(trail) = 1
      THEN last.cost = SeekCost(last.pre, 0, HDD_OP_READ, FALSE,
                                Destination(last.pre, 0))
    ELSE IF Covered(mid, last.seg, last.addr) THEN last.hit /\ last.cost = 0
    ELSE /\ last.hit
         /\ last.cost = SeekCost(mid, last.addr, HDD_OP_READ, TRUE,
                                 Destination(mid, last.addr))

\* C8 (as amended): in a stream of TimingRead(k, 1), k = 0, 1, ..., on a
\* one-zone drive with freshly reset caches, the first call costs the
\* discrete-access cost; every later call is a hit that costs 0 when
\* read-ahead already covered sector k and otherwise one estimator call for
\* sector k from where catch-up left the head: the zone's sector_time_usec
\* when the head is on sector k-1 of the same track, the head-switch or
\* cylinder-switch time when it is on sector k-1 and sector k starts another
\* track, and the discrete-access cost when it is anywhere else.
C8_StreamCost ==
    IsStream => StreamCost(last.mid)

\* The stream crossed from the last sector of a track to the first of the
\* next one and was charged the head-switch time, more than a sector time.
C8_Witness ==
    /\ IsStream /\ Len(trail) >= 2
    /\ last.mid.cur_addr = last.addr - 1
    /\ ~Covered(last.mid, last.seg, last.addr)
    /\ Destination(last.mid, last.addr)[2] # last.mid.cur_track
    /\ last.cost = last.mid.head_switch_usec
    /\ last.cost > hdd.zones[0].sector_time_usec

\* C8 (as stated): the first call of the stream costs the discrete-access
\* cost and every later call costs at most the zone's sector_time_usec.
C8_StreamCostAtMostSectorTime ==
    IsStream =>
        IF Len(trail) = 1
          THEN last.cost = SeekCost(last.pre, 0, HDD_OP_READ, FALSE,
                                    Destination(last.pre, 0))
          ELSE last.cost <= hdd.zones[0].sector_time_usec

\* The calls so far are reads of at most a segment each, at addresses whose
\* windows [addr, addr + segment_size) are pairwise disjoint and not
\* adjacent, on a two-segment cache reset by Init.
IsLruSequence(n) ==
    /\ SpeedModel(hdd) /\ hdd.cache.num_segments = 2
    /\ Len(trail) = n
    /\ \A k \in 1 .. n :
          trail[k].op = "read" /\ trail[k].len <= hdd.cache.segment_size
    /\ \A j, k \in 1 .. n :
          j # k => Abs(trail[j].addr - trail[k].addr) > hdd.cache.segment_size

\* Segment trail[k].seg holds the window of the k-th read.
HoldsRead(k) ==
    /\ hdd.cache.segments[trail[k].seg].valid
    /\ hdd.cache.segments[trail[k].seg].lba_addr = trail[k].addr

C10_SegmentInvariant ==
    \A s \in DOMAIN hdd.cache.segments :
        hdd.cache.segments[s].valid =>
            hdd.cache.segments[s].ra_addr >= hdd.cache.segments[s].lba_addr

\* A valid segment's window was slid forward (lba_addr is past the address
\* it was loaded at) and ra_addr is still not behind it.
C10_Witness ==
    /\ SpeedModel(hdd)
    /\ Len(trail) >= 2
    /\ trail[1].op = "read"
    /\ \E s \in DOMAIN hdd.cache.segments :
          /\ hdd.cache.segments[s].valid
          /\ s = trail[1].seg
          /\ hdd.cache.segments[s].host_addr = trail[1].addr
          /\ hdd.cache.segments[s].lba_addr > trail[1].addr
          /\ hdd.cache.segments[s].ra_addr >= hdd.cache.segments[s].lba_addr

\* The last call was a seek, a read or a write on a drive without speed
\* model.
InstantaneousCall ==
    /\ last.op \in {"seek", "read", "write"}
    /\ last.pre.speed_preset = 0

\* C11: with speed_preset = 0, EstimateSeek, TimingRead and TimingWrite
\* return the overhead constant of 50 usec and change nothing of the drive:
\* mechanical position, read-cache segments, read-ahead session and write
\* cache are as before the call.
C11_Instantaneous ==
    InstantaneousCall =>
        /\ last.cost = HDD_OVERHEAD_TIME
        /\ last.cost = 50
        /\ hdd = last.pre

\* A read on a drive switched to preset 0 while a read-ahead session was
\* armed and a segment valid: 50 usec, session and segment as they were.
C11_Witness ==
    /\ InstantaneousCall /\ last.op = "read"
    /\ last.pre.cache.ra_ongoing
    /\ \E s \in DOMAIN last.pre.cache.segments : last.pre.cache.segments[s].valid
    /\ last.cost = 50
    /\ hdd.cache = last.pre.cache
    /\ MechanicalState(hdd) = MechanicalState(last.pre)
\* C12: after ApplyPreset has returned, from any prior drive state, every
\* read-cache segment is invalid, no read-ahead session is active and the
\* write cache holds no pending run.
C12_ApplyResetsCaches ==
    last.op = "apply" =>
        /\ \A s \in DOMAIN hdd.cache.segments : ~hdd.cache.segments[s].valid
        /\ ~hdd.cache.ra_ongoing
        /\ hdd.cache.write_pending = 0

\* C13: after ApplyPreset has returned, cur_addr, cur_track and cur_cylinder
\* are at the default position (sector 0, track 0, cylinder 0) wherever
\* earlier accesses left the head.
C13_ApplyResetsHead ==
    last.op = "apply" => MechanicalState(hdd) = <<0, 0, 0>>
\* The call before the last one applied a preset index past the end of the
\* table.
AfterOutOfRange ==
    /\ Len(trail) >= 2
    /\ trail[Len(trail) - 1].op = "apply"
    /\ trail[Len(trail) - 1].preset >= hdd_preset_get_num

\* C14: ApplyPreset with speed_preset >= the number of table entries sets
\* speed_preset to 0 and sizes the cache as preset 0 does (it does not
\* fail); the seek, read or write that follows returns the overhead constant
\* and changes nothing, as with the instantaneous preset.
C14_OutOfRangePreset ==
    /\ (last.op = "apply" /\ last.preset >= hdd_preset_get_num) =>
          /\ ~trapped
          /\ hdd.speed_preset = 0
          /\ hdd.cache.num_segments = hdd_speed_presets[0].rcache_num_seg
          /\ hdd.cache.segment_size = hdd_speed_presets[0].rcache_seg_size
    /\ (AfterOutOfRange /\ last.op \in {"seek", "read", "write"}) =>
          /\ last.cost = HDD_OVERHEAD_TIME
          /\ hdd = last.pre

\* A drive that had a speed model was given preset index 500; the read that
\* followed cost 50 usec on a cache sized 16 x 128 and changed nothing.
C14_Witness ==
    /\ AfterOutOfRange /\ last.op = "read"
    /\ trail[Len(trail) - 1].preset = 500
    /\ last.pre.num_zones > 0
    /\ last.pre.speed_preset = 0
    /\ last.pre.cache.num_segments = 16 /\ last.pre.cache.segment_size = 128
    /\ last.cost = 50
    /\ hdd = last.pre
\* C15: on a drive with a nonzero speed preset and no zones, EstimateSeek
\* (build without DO_FATAL) returns the fallback latency of 1000 usec, for
\* every destination, operation, continuous flag and budget, and leaves the
\* mechanical state unchanged; no such seek ends the process.
C15_NoZonesFallback ==
    /\ (hdd.speed_preset # 0 /\ hdd.num_zones = 0) => ~trapped
    /\ (last.op = "seek" /\ last.pre.speed_preset # 0 /\ last.pre.num_zones = 0) =>
          /\ last.cost = NO_ZONES_TIME
          /\ last.cost = 1000
          /\ MechanicalState(hdd) = MechanicalState(last.pre)

\* A continuous seek without budget, which would move the head on any drive
\* with zones, returned 1000 usec and left it on sector 0.
C15_Witness ==
    /\ last.op = "seek" /\ last.pre.speed_preset # 0 /\ last.pre.num_zones = 0
    /\ last.max_seek_time = 0 /\ last.addr = 38
    /\ last.cost = 1000
    /\ hdd.cur_addr = 0
    /\ hdd = last.pre
\* C16: hdd_is_valid returns 1 if and only if the drive's bus type is not
\* HDD_BUS_DISABLED, its file name is not empty and tracks, hpc and spt are
\* all nonzero; otherwise it returns 0; the drive is as before the call.
C16_DriveValidity ==
    last.op = "valid" =>
        /\ last.cost \in {0, 1}
        /\ last.cost = 1 <=> /\ last.pre.bus_type # HDD_BUS_DISABLED
                             /\ last.pre.fn # <<>>
                             /\ last.pre.tracks # 0
                             /\ last.pre.hpc # 0
                             /\ last.pre.spt # 0
        /\ hdd = last.pre

\* An attached drive with a file name, tracks and heads but spt = 0 was
\* found invalid.
C16_Witness ==
    /\ last.op = "valid"
    /\ last.pre.bus_type # HDD_BUS_DISABLED /\ last.pre.fn # <<>>
    /\ last.pre.tracks # 0 /\ last.pre.hpc # 0 /\ last.pre.spt = 0
    /\ last.cost = 0
    /\ hdd = last.pre

\* C17: every TimingRead and TimingWrite call runs to completion for every
\* drive state, address, length and clock value: no call made is left
\* without having returned.
C17_CallsReturn == ~trapped

\* The zones of hd that end at or after dst_addr, and the zone a seek to
\* dst_addr is computed in: the lowest of them, or the last zone of all.
ZonesUpTo(hd, dst_addr) ==
    {i \in 0 .. hd.num_zones - 1 : hd.zones[i].end_sector >= dst_addr}

LowestOf(zs, otherwise) ==
    IF zs = {} THEN otherwise ELSE CHOOSE i \in zs : \A j \in zs : i <= j

ZoneOf(hd, dst_addr) ==
    hd.zones[LowestOf(ZonesUpTo(hd, dst_addr), hd.num_zones - 1)]

TrackIn(zone, dst_addr) ==
    IF zone.sectors_per_track = 0 THEN -1
    ELSE zone.start_track
           + (dst_addr - zone.start_sector) \div zone.sectors_per_track

CylinderDiff(hd, track) == Abs(hd.cur_cylinder - track \div hd.phy_heads)

\* A seek that was asked to be continuous and goes to cur_addr + 1.
SequentialSeek ==
    /\ last.op = "seek" /\ SpeedModel(last.pre)
    /\ last.continuous /\ last.addr = last.pre.cur_addr + 1

\* A seek that is not continuous, or is but does not go to cur_addr + 1.
DiscreteSeek ==
    /\ last.op = "seek" /\ SpeedModel(last.pre)
    /\ ~(last.continuous /\ last.addr = last.pre.cur_addr + 1)

ContinuousCost(hd, zone, track, cylinder_diff) ==
    IF track = hd.cur_track THEN zone.sector_time_usec
    ELSE IF cylinder_diff = 0 THEN hd.head_switch_usec
    ELSE hd.cyl_switch_usec

ContinuousCostAsStated(hd, zone, track, cylinder_diff) ==
    IF track = hd.cur_track /\ cylinder_diff = 0 THEN zone.sector_time_usec
    ELSE IF track = hd.cur_track THEN hd.head_switch_usec
    ELSE IF cylinder_diff = 0 THEN hd.cyl_switch_usec
    ELSE zone.sector_time_usec

\* C18, as stated: a continuous seek to cur_addr + 1 costs the zone's sector
\* time on the same track without a cylinder change, the head-switch time
\* on the same track with a cylinder change, the cylinder-switch time on
\* another track without a cylinder change, and the zone's sector time on
\* another track with a cylinder change.
C18_ContinuousCostAsStated ==
    SequentialSeek =>
        last.cost = ContinuousCostAsStated(
                        last.pre, ZoneOf(last.pre, last.addr),
                        TrackIn(ZoneOf(last.pre, last.addr), last.addr),
                        CylinderDiff(last.pre,
                            TrackIn(ZoneOf(last.pre, last.addr), last.addr)))

\* C18, amended: a continuous seek to cur_addr + 1 costs the zone's sector
\* time when the destination is on the current track, the head-switch time
\* when the track changes and the cylinder does not, and the
\* cylinder-switch time when track and cylinder change.
C18_ContinuousCost ==
    SequentialSeek =>
        last.cost = ContinuousCost(
                        last.pre, ZoneOf(last.pre, last.addr),
                        TrackIn(ZoneOf(last.pre, last.addr), last.addr),
                        CylinderDiff(last.pre,
                            TrackIn(ZoneOf(last.pre, last.addr), last.addr)))

\* A continuous seek from the last sector of a cylinder to the first of the
\* next was charged the cylinder-switch time, which is not the sector time.
C18_Witness ==
    /\ SequentialSeek
    /\ hdd.cur_track # last.pre.cur_track
    /\ hdd.cur_cylinder # last.pre.cur_cylinder
    /\ last.cost = last.pre.cyl_switch_usec
    /\ last.cost # ZoneOf(last.pre, last.addr).sector_time_usec

DiscreteCost(hd, operation, cylinder_diff) ==
    IF cylinder_diff = 0
      THEN (IF operation = HDD_OP_SEEK THEN HDD_OVERHEAD_TIME
            ELSE hd.avg_rotation_lat_usec)
      ELSE hd.cyl_switch_usec
             + (hd.full_stroke_usec * cylinder_diff) \div hd.phy_cyl
             + (IF operation = HDD_OP_SEEK THEN 0 ELSE hd.avg_rotation_lat_usec)

\* C19: a seek with continuous clear, or to a destination other than
\* cur_addr + 1, costs, with cylinder_diff = 0, the fixed overhead for a
\* pure seek and the average rotational latency for a read or write; with
\* cylinder_diff > 0, cyl_switch + full_stroke * cylinder_diff /
\* total_cylinders, plus the average rotational latency unless it is a pure
\* seek.
C19_DiscreteCost ==
    DiscreteSeek =>
        last.cost = DiscreteCost(
                        last.pre, last.operation,
                        CylinderDiff(last.pre,
                            TrackIn(ZoneOf(last.pre, last.addr), last.addr)))

\* A pure seek asked to be continuous, but not to cur_addr + 1, crossed
\* cylinders and was charged switch and stroke without the latency.
C19_Witness ==
    /\ DiscreteSeek
    /\ last.continuous /\ last.operation = HDD_OP_SEEK
    /\ hdd.cur_cylinder # last.pre.cur_cylinder
    /\ last.pre.avg_rotation_lat_usec > 0
    /\ last.cost = last.pre.cyl_switch_usec
                     + (last.pre.full_stroke_usec
                          * Abs(hdd.cur_cylinder - last.pre.cur_cylinder))
                         \div last.pre.phy_cyl

\* A seek that moved the head: every seek without a budget does.
CommittedSeek ==
    last.op = "seek" /\ SpeedModel(last.pre) /\ last.max_seek_time = 0

\* C20: a seek is computed in the first zone whose end_sector >= the
\* destination, the last zone when there is none; the track is start_track
\* + (destination - start_sector) div sectors_per_track of that zone and
\* the cylinder is the track div heads; a destination inside zone z is
\* computed with zone z.
C20_ZoneLookup ==
    CommittedSeek =>
        /\ hdd.cur_addr = last.addr
        /\ hdd.cur_track = TrackIn(ZoneOf(last.pre, last.addr), last.addr)
        /\ hdd.cur_cylinder = hdd.cur_track \div last.pre.phy_heads
        /\ \A z \in 0 .. last.pre.num_zones - 1 :
               (/\ last.pre.zones[z].start_sector <= last.addr
                /\ last.addr <= last.pre.zones[z].end_sector)
                   => ZoneOf(last.pre, last.addr) = last.pre.zones[z]

\* A seek to the last sector of the first of two zones was computed in that
\* zone, not in the one that starts right after it.
C20_Witness ==
    /\ CommittedSeek
    /\ last.pre.num_zones = 2
    /\ last.addr = last.pre.zones[0].end_sector
    /\ last.addr + 1 = last.pre.zones[1].start_sector
    /\ last.pre.zones[1].sectors_per_track > 0
    /\ hdd.cur_track = last.pre.zones[0].start_track
                         + last.addr \div last.pre.zones[0].sectors_per_track

\* C21: TimingRead flushes the write cache first: the run still pending
\* after catch-up is flushed whole, one estimator call per sector, before
\* the read is classified; write_pending = 0 in every state after a
\* TimingRead has returned.
C21_ReadFlushesWrites ==
    last.op = "read" =>
        /\ last.flushed = last.mid.cache.write_pending
        /\ hdd.cache.write_pending = 0

\* A TimingRead that got as far as classifying the request.
ClassifiedRead == last.op = "read" /\ last.pre.speed_preset # 0

\* The segments of the read cache of hd.
CacheSegments(hd) ==
    {i \in DOMAIN hd.cache.segments : i < hd.cache.num_segments}

\* The valid segments whose half-open window holds addr when the request
\* is classified (after catch-up and flush, which leave last.mid's
\* segments).
WindowsHolding(hd, addr) ==
    {i \in CacheSegments(hd) :
        /\ hd.cache.segments[i].valid
        /\ hd.cache.segments[i].lba_addr <= addr
        /\ addr < hd.cache.segments[i].lba_addr + hd.cache.segment_size}

\* C22: TimingRead(address, length) is a hit if and only if some valid
\* segment has lba_addr <= address < lba_addr + segment_size; an address
\* equal to lba_addr + segment_size is a miss.
C22_HitHalfOpen ==
    ClassifiedRead => (last.hit <=> WindowsHolding(last.mid, last.addr) # {})

\* The estimator calls a read charged for its own sectors: all the calls
\* added to its cost but those of the write flush.
SectorsRead == last.charged - last.flushed

\* What a read leaves of segment i to the host: window, cursors, validity.
SegmentWindow(hd, i) ==
    <<hd.cache.segments[i].lba_addr, hd.cache.segments[i].host_addr,
      hd.cache.segments[i].ra_addr, hd.cache.segments[i].valid>>

OtherSegmentsKept(before, after, s) ==
    \A i \in DOMAIN before.cache.segments :
        i # s => SegmentWindow(after, i) = SegmentWindow(before, i)

\* The segment a hit was served from, as it was when the request was
\* classified and as it is after the call.
HitHandling(old, new, segment_size, addr, len) ==
    /\ new.host_addr = addr
    /\ new.ra_addr = Max(old.ra_addr, addr + len)
    /\ SectorsRead = Max(0, (addr + len) - old.ra_addr)
    /\ new.lba_addr = Max(old.lba_addr, (addr + len) - segment_size)
    /\ addr + len <= new.lba_addr + segment_size
    /\ new.valid
    /\ SectorsRead > 0 => hdd.cur_addr = new.ra_addr - 1
    /\ last.charged = 0 => last.cost = 0

\* C23: on a hit host_addr becomes address, ra_addr becomes max(old ra_addr,
\* address + length) with max(0, address + length - old ra_addr) uncapped
\* estimator calls charged, lba_addr becomes max(old lba_addr, address +
\* length - segment_size), so address + length <= lba_addr + segment_size
\* afterwards; no other segment's lba_addr, host_addr, ra_addr or valid
\* flag changes.
C23_HitHandling ==
    (ClassifiedRead /\ last.hit) =>
        /\ HitHandling(last.mid.cache.segments[last.seg],
                       hdd.cache.segments[last.seg],
                       last.mid.cache.segment_size, last.addr, last.len)
        /\ OtherSegmentsKept(last.mid, hdd, last.seg)

\* A hit, in a cache of several segments with another one valid, that had
\* to read on past ra_addr and to slide the window.
C23_Witness ==
    /\ ClassifiedRead /\ last.hit
    /\ SectorsRead > 0
    /\ hdd.cache.segments[last.seg].lba_addr
           > last.mid.cache.segments[last.seg].lba_addr
    /\ \E i \in CacheSegments(hdd) : i # last.seg /\ hdd.cache.segments[i].valid

\* The head of hd on sector addr.
MovedTo(hd, addr) ==
    [hd EXCEPT !.cur_addr = addr,
               !.cur_track = TrackIn(ZoneOf(hd, addr), addr),
               !.cur_cylinder = TrackIn(ZoneOf(hd, addr), addr) \div hd.phy_heads]

\* The cost of one access to sector addr from where the head of hd is.
AccessCost(hd, addr, operation, continuous) ==
    IF continuous /\ addr = hd.cur_addr + 1
      THEN ContinuousCost(hd, ZoneOf(hd, addr), TrackIn(ZoneOf(hd, addr), addr),
                          CylinderDiff(hd, TrackIn(ZoneOf(hd, addr), addr)))
      ELSE DiscreteCost(hd, operation,
                        CylinderDiff(hd, TrackIn(ZoneOf(hd, addr), addr)))

\* One access to sector addr added to the account acc = [hd, t]: the head
\* moves with it.
ChargeSector(acc, addr, operation, continuous) ==
    [hd |-> MovedTo(acc.hd, addr),
     t |-> acc.t + AccessCost(acc.hd, addr, operation, continuous)]

\* count sectors from addr charged one after the other without a budget,
\* the first with the given continuous flag and the others continuous,
\* added to the account acc; the sectors are taken in two halves, the
\* second continuing from the account of the first.
RECURSIVE ChargeSectors(_, _, _, _, _)
ChargeSectors(acc, addr, count, operation, continuous) ==
    IF acc.t < 0 \/ count <= 0 THEN acc
    ELSE IF count = 1 THEN ChargeSector(acc, addr, operation, continuous)
    ELSE ChargeSectors(ChargeSectors(acc, addr, count \div 2, operation,
                                     continuous),
                       addr + count \div 2, count - count \div 2, operation,
                       TRUE)

\* The account of the last read when its request is classified: the drive
\* after its catch-up with the pending run written out.
AfterFlush ==
    ChargeSectors([hd |-> last.mid, t |-> 0], last.mid.cache.write_addr,
                  last.mid.cache.write_pending, HDD_OP_WRITE, TRUE)

\* The account of a miss: AfterFlush and then the sectors of the request,
\* the first one as a discrete read.
AfterMiss ==
    ChargeSectors(AfterFlush, last.addr, last.len, HDD_OP_READ, FALSE)

MissHandling(new, addr, len) ==
    /\ new.valid
    /\ new.lba_addr = addr /\ new.host_addr = addr
    /\ new.ra_addr = addr + len
    /\ SectorsRead = len
    /\ last.cost = AfterMiss.t
    /\ len >= 1 => hdd.cur_addr = addr + len - 1
    /\ MechanicalState(hdd) = MechanicalState(AfterMiss.hd)

\* C24: on a miss the chosen segment becomes valid with lba_addr =
\* host_addr = address and ra_addr = address + length; exactly length
\* estimator calls are charged for sectors address .. address + length - 1,
\* the first as a discrete read even when address = cur_addr + 1 and the
\* others as continuous reads; with length >= 1 the head ends on address +
\* length - 1.
C24_MissHandling ==
    (ClassifiedRead /\ ~last.hit) =>
        MissHandling(hdd.cache.segments[last.seg], last.addr, last.len)

\* A miss of several sectors that starts on the sector after the head: its
\* first sector was not charged the continuous cost.
C24_Witness ==
    /\ ClassifiedRead /\ ~last.hit
    /\ last.len > 1
    /\ last.addr = AfterFlush.hd.cur_addr + 1
    /\ last.cost # ChargeSectors(AfterFlush, last.addr, last.len, HDD_OP_READ,
                                 TRUE).t
    /\ hdd.cur_addr = last.addr + last.len - 1

InvalidSegments(hd) ==
    {i \in CacheSegments(hd) : ~hd.cache.segments[i].valid}

LargestLru(hd, s) ==
    \A i \in CacheSegments(hd) :
        hd.cache.segments[i].lru <= hd.cache.segments[s].lru

\* C25: on a miss, if at least one segment is invalid an invalid segment is
\* the one re-initialised; if all segments are valid, the one re-initialised
\* has the largest lru value.
C25_VictimSelection ==
    (ClassifiedRead /\ ~last.hit) =>
        /\ last.seg \in CacheSegments(last.mid)
        /\ IF InvalidSegments(last.mid) # {}
             THEN last.seg \in InvalidSegments(last.mid)
             ELSE LargestLru(last.mid, last.seg)

\* A miss with every segment valid threw out the segment with the largest
\* lru, and there was one with a smaller lru to choose.
C25_Witness ==
    /\ ClassifiedRead /\ ~last.hit
    /\ InvalidSegments(last.mid) = {}
    /\ LargestLru(last.mid, last.seg)
    /\ \E i \in CacheSegments(last.mid) :
           last.mid.cache.segments[i].lru < last.mid.cache.segments[last.seg].lru

\* C26: every TimingRead on a drive with a speed model, hit or miss,
\* increases the lru counter of every segment other than the winning one by
\* exactly 1 and sets the winning segment's lru to 0.
C26_LruUpdate ==
    ClassifiedRead =>
        /\ last.seg \in CacheSegments(hdd)
        /\ hdd.cache.segments[last.seg].lru = 0
        /\ \A i \in CacheSegments(hdd) :
               i # last.seg =>
                   hdd.cache.segments[i].lru = last.pre.cache.segments[i].lru + 1

\* A hit on a segment that was not the most recently used one: its counter
\* went back to 0 and that of another valid segment went up to 1.
C26_Witness ==
    /\ ClassifiedRead /\ last.hit
    /\ last.pre.cache.segments[last.seg].lru > 0
    /\ hdd.cache.segments[last.seg].lru = 0
    /\ \E i \in CacheSegments(hdd) :
           /\ i # last.seg /\ hdd.cache.segments[i].valid
           /\ last.pre.cache.segments[i].lru = 0
           /\ hdd.cache.segments[i].lru = 1

\* The read-ahead session of hd is on a valid segment of the cache.
SessionOnValidSegment(hd) ==
    hd.cache.ra_ongoing =>
        /\ hd.cache.ra_segment < hd.cache.num_segments
        /\ hd.cache.segments[hd.cache.ra_segment].valid

\* C27: after every TimingRead on a drive with a speed model ra_ongoing is
\* true, ra_segment is the id of the segment that served the request, that
\* segment is valid and ra_start_time is the clock at the call plus the
\* returned cost in ticks; whenever ra_ongoing is true, ra_segment is less
\* than the segment count and segments[ra_segment] is valid.
C27_SessionArmed ==
    /\ SessionOnValidSegment(hdd)
    /\ ClassifiedRead =>
           /\ hdd.cache.ra_ongoing
           /\ hdd.cache.ra_segment = hdd.cache.segments[last.seg].id
           /\ hdd.cache.ra_segment = last.seg
           /\ hdd.cache.segments[last.seg].valid
           /\ hdd.cache.ra_start_time = last.now + last.cost * cpuclock_mhz

\* A read at a clock value past 0, served by a segment other than the
\* first, armed the session on that segment, to start after its cost.
C27_Witness ==
    /\ ClassifiedRead
    /\ last.now > 0 /\ last.cost > 0 /\ last.seg # 0
    /\ hdd.cache.ra_ongoing /\ hdd.cache.ra_segment = last.seg
    /\ hdd.cache.segments[last.seg].valid
    /\ hdd.cache.ra_start_time = last.now + last.cost * cpuclock_mhz

\* A TimingRead or TimingWrite on a drive with a speed model that found a
\* read-ahead session to catch up with.
CatchUpCall ==
    /\ last.op \in {"read", "write"}
    /\ last.pre.speed_preset # 0
    /\ last.pre.cache.ra_ongoing

\* ra_addr of the session segment before the call and after its catch-up.
SessionCursor(hd) == hd.cache.segments[last.pre.cache.ra_segment].ra_addr

\* C28: read-ahead starts counting only after the arming request's own cost
\* has elapsed: a TimingRead or TimingWrite whose catch-up runs at a clock
\* value not later than ra_start_time advances ra_addr by zero sectors and
\* does not move the head.
C28_NoReadAheadBeforeStart ==
    (CatchUpCall /\ last.now <= last.pre.cache.ra_start_time
                 /\ last.pre.cache.write_pending = 0) =>
        /\ SessionCursor(last.mid) = SessionCursor(last.pre)
        /\ MechanicalState(last.mid) = MechanicalState(last.pre)

\* The time in usec from the start of the session the last call found to
\* the call; negative when the call came before the start.
SinceSessionStart ==
    IF last.now >= last.pre.cache.ra_start_time
      THEN (last.now - last.pre.cache.ra_start_time) \div cpuclock_mhz
      ELSE -1

\* The sectors the catch-up of the last call read ahead.
ReadAhead == SessionCursor(last.mid) - SessionCursor(last.pre)

\* The cost of k continuous reads from the session's ra_addr.
ReadAheadCost(k) ==
    ChargeSectors([hd |-> last.pre, t |-> 0], SessionCursor(last.pre), k,
                  HDD_OP_READ, TRUE).t

\* The most the session may read ahead: up to host_addr + segment_size.
ReadAheadRoom ==
    (last.pre.cache.segments[last.pre.cache.ra_segment].host_addr
        + last.pre.cache.segment_size) - SessionCursor(last.pre)

ReadAheadKept(before, after, except) ==
    \A i \in DOMAIN before.cache.segments :
        i \notin except =>
            after.cache.segments[i].ra_addr = before.cache.segments[i].ra_addr

\* C29: read-ahead catch-up does nothing when no session is active; when
\* one is, it advances the session segment's ra_addr by k sectors only if
\* the accumulated cost of those k continuous reads is <= the time elapsed
\* since ra_start_time, and stops at the first sector whose cost would push
\* the accumulated cost above it; ra_addr of the other segments is
\* unchanged.
C29_CatchUpBudget ==
    (last.op \in {"read", "write"} /\ last.pre.speed_preset # 0) =>
        IF ~last.pre.cache.ra_ongoing
          THEN last.mid.cache.segments = last.pre.cache.segments
          ELSE /\ ReadAhead >= 0
               /\ ReadAhead > 0 => ReadAheadCost(ReadAhead) <= SinceSessionStart
               /\ ReadAhead < ReadAheadRoom
                      => ReadAheadCost(ReadAhead + 1) > SinceSessionStart
               /\ ReadAheadKept(last.pre, last.mid, {last.pre.cache.ra_segment})

\* The sectors the background drain of the last call wrote out.
Drained == last.pre.cache.write_pending - last.mid.cache.write_pending

\* C30: in the catch-up loops the cursor advances exactly for the estimator
\* calls that commit; the call that ends the loop as over budget leaves
\* cur_addr, cur_track and cur_cylinder unchanged, also when the remaining
\* budget is exactly 0: after a read-ahead catch-up that advanced ra_addr
\* the head is at ra_addr - 1, after a drain that advanced write_addr it is
\* at write_addr - 1, and a catch-up that advanced nothing did not move the
\* head.
C30_CommitAdvanceLockstep ==
    (last.op \in {"read", "write"} /\ last.pre.speed_preset # 0) =>
        /\ (last.pre.cache.ra_ongoing /\ last.pre.cache.write_pending = 0) =>
               IF ReadAhead > 0
                 THEN last.mid.cur_addr = SessionCursor(last.mid) - 1
                 ELSE MechanicalState(last.mid) = MechanicalState(last.pre)
        /\ (~last.pre.cache.ra_ongoing /\ last.pre.cache.write_pending > 0) =>
               IF Drained > 0
                 THEN last.mid.cur_addr = last.mid.cache.write_addr - 1
                 ELSE MechanicalState(last.mid) = MechanicalState(last.pre)

\* The session segment of the last call before it and after its catch-up.
SessionSegment(hd) == hd.cache.segments[last.pre.cache.ra_segment]

WindowSlide(old, new, segment_size) ==
    /\ new.ra_addr <= new.lba_addr + segment_size
    /\ new.lba_addr = IF new.ra_addr > old.lba_addr + segment_size
                        THEN old.lba_addr
                               + (new.ra_addr - (old.lba_addr + segment_size))
                        ELSE old.lba_addr

\* C31: after read-ahead catch-up on an active session the session segment
\* has ra_addr <= lba_addr + segment_size; when ra_addr had passed the
\* window, lba_addr is increased by exactly ra_addr - (old lba_addr +
\* segment_size), and otherwise lba_addr is unchanged.
C31_CatchUpWindowSlide ==
    CatchUpCall => WindowSlide(SessionSegment(last.pre), SessionSegment(last.mid),
                               last.pre.cache.segment_size)

\* Catch-up read ahead past the end of the window and moved the window up
\* by the overflow.
C31_Witness ==
    /\ CatchUpCall
    /\ ReadAhead > 0
    /\ SessionSegment(last.mid).lba_addr > SessionSegment(last.pre).lba_addr
    /\ SessionSegment(last.mid).ra_addr
           = SessionSegment(last.mid).lba_addr + last.pre.cache.segment_size

\* A TimingWrite that got past the test of speed_preset.
CachedWrite == last.op = "write" /\ last.pre.speed_preset # 0

\* The last write continues the run it found pending after catch-up.
RunKept ==
    /\ last.mid.cache.write_pending > 0
    /\ last.addr = last.mid.cache.write_addr + last.mid.cache.write_pending

\* The run the last write adds its sectors to: the one it found, or an
\* empty one at its own address.
RunStart == IF RunKept THEN last.mid.cache.write_addr ELSE last.addr

RunPending == IF RunKept THEN last.mid.cache.write_pending ELSE 0

\* The sectors over capacity once length is added.
Excess == Max(0, (RunPending + last.len) - last.mid.cache.write_size)

\* The account of the last write before length is added: the drive after
\* catch-up, with the run written out if the write does not continue it.
AfterRunFlush ==
    IF RunKept THEN [hd |-> last.mid, t |-> 0]
    ELSE ChargeSectors([hd |-> last.mid, t |-> 0], last.mid.cache.write_addr,
                       last.mid.cache.write_pending, HDD_OP_WRITE, TRUE)

AfterExcess ==
    ChargeSectors(AfterRunFlush, RunStart, Excess, HDD_OP_WRITE, TRUE)

\* C32: when adding length makes write_pending exceed write_size,
\* TimingWrite charges exactly write_pending - write_size uncapped
\* continuous write estimator calls, advances write_addr by that many
\* sectors and does not decrement write_pending; when write_pending <=
\* write_size after adding length, this step charges no sector.
C32_ForcedPartialFlush ==
    CachedWrite =>
        /\ last.charged - last.flushed = Excess
        /\ hdd.cache.write_addr = RunStart + Excess
        /\ hdd.cache.write_pending = RunPending + last.len
        /\ last.cost = AfterExcess.t
        /\ MechanicalState(hdd) = MechanicalState(AfterExcess.hd)
        /\ Excess > 0 => hdd.cur_addr = hdd.cache.write_addr - 1

\* A write that continued a run over capacity: the sectors over capacity
\* were charged and write_pending is left above write_size.
C32_Witness ==
    /\ CachedWrite /\ RunKept
    /\ Excess > 0
    /\ last.charged = Excess
    /\ last.cost > 0
    /\ hdd.cache.write_addr = last.mid.cache.write_addr + Excess
    /\ hdd.cache.write_pending > hdd.cache.write_size

\* C33: after every TimingWrite on a drive with a speed model ra_ongoing is
\* false, and a catch-up that finds no session makes no read-ahead progress;
\* the read-ahead catch-up for the time elapsed is applied before the
\* session is disarmed.
C33_WriteDisarms ==
    /\ CachedWrite =>
           /\ ~hdd.cache.ra_ongoing
           /\ hdd.cache.segments = last.mid.cache.segments
           /\ (/\ last.pre.cache.ra_ongoing
               /\ ReadAheadRoom > 0
               /\ ReadAheadCost(1) <= SinceSessionStart) => ReadAhead > 0
    /\ (last.op \in {"read", "write"} /\ last.pre.speed_preset # 0
            /\ ~last.pre.cache.ra_ongoing) =>
           last.mid.cache.segments = last.pre.cache.segments

\* A write found a session that had had time to read ahead: the sectors
\* were read ahead and the session is off.
C33_Witness ==
    /\ CachedWrite
    /\ last.pre.cache.ra_ongoing
    /\ last.now > last.pre.cache.ra_start_time
    /\ ReadAhead > 0
    /\ ~hdd.cache.ra_ongoing
    /\ hdd.cache.segments = last.mid.cache.segments

\* The end of the data the host has not read yet in the session segment.
UnreadBound ==
    SessionSegment(last.pre).host_addr + last.pre.cache.segment_size

\* C34: catch-up never advances a segment's ra_addr beyond host_addr +
\* segment_size; if ra_addr is already at or beyond that bound, catch-up
\* advances it by zero sectors.
C34_ReadAheadBound ==
    CatchUpCall =>
        /\ ReadAhead >= 0
        /\ ReadAhead > 0 => SessionCursor(last.mid) <= UnreadBound
        /\ SessionCursor(last.pre) >= UnreadBound => ReadAhead = 0
        /\ ReadAheadKept(last.pre, last.mid, {last.pre.cache.ra_segment})
        /\ SessionSegment(last.mid).host_addr = SessionSegment(last.pre).host_addr

\* After a miss longer than a segment, and with time gone by, catch-up read
\* nothing ahead: ra_addr was already past host_addr + segment_size.
C34_Witness ==
    /\ CatchUpCall
    /\ last.now > last.pre.cache.ra_start_time
    /\ SessionCursor(last.pre) > UnreadBound
    /\ ReadAhead = 0

\* A timing call on a drive with a speed model: it starts with catch-up.
TimingCall == last.op \in {"read", "write"} /\ last.pre.speed_preset # 0

\* The time in usec from write_start_time of the run the last call found
\* to the call; negative when the call came before it.
SinceWriteStart ==
    IF last.now >= last.pre.cache.write_start_time
      THEN (last.now - last.pre.cache.write_start_time) \div cpuclock_mhz
      ELSE -1

\* The cost of k continuous writes from the run's write_addr.
DrainCost(k) ==
    ChargeSectors([hd |-> last.pre, t |-> 0], last.pre.cache.write_addr, k,
                  HDD_OP_WRITE, TRUE).t

\* C35: at the start of TimingRead/TimingWrite the write cache drains k
\* sectors of a pending run (write_addr + k, write_pending - k) only if the
\* accumulated cost of those k continuous writes is <= the time elapsed
\* since write_start_time; it never increases write_pending and does
\* nothing when write_pending = 0; a non-contiguous write that finds the
\* run fully drained is charged no flush cost.
C35_BackgroundDrain ==
    TimingCall =>
        /\ Drained >= 0
        /\ last.mid.cache.write_addr = last.pre.cache.write_addr + Drained
        /\ last.pre.cache.write_pending = 0 => Drained = 0
        /\ (Drained > 0 /\ ~last.pre.cache.ra_ongoing)
               => DrainCost(Drained) <= SinceWriteStart
        /\ (last.op = "write" /\ last.mid.cache.write_pending = 0)
               => last.flushed = 0

\* The address after the last sector of the pending run of hd.
RunEnd(hd) == hd.cache.write_addr + hd.cache.write_pending

\* C36: background drain and the full flush leave write_addr +
\* write_pending unchanged, and so does every TimingWrite step other than
\* adding length: after a TimingWrite write_addr + write_pending is the end
\* address of that write, also after a write that exceeded capacity, so the
\* next contiguous write is recognised as contiguous.
C36_RunEndPreserved ==
    /\ TimingCall => RunEnd(last.mid) = RunEnd(last.pre)
    /\ CachedWrite => RunEnd(hdd) = last.addr + last.len

\* The preset was applied once, when the machine started, and not again.
FreshlyApplied == \A i \in DOMAIN trail : trail[i].op # "apply"

\* C37: in every state reached from a freshly applied preset by
\* EstimateSeek, TimingRead and TimingWrite calls, cur_cylinder = cur_track
\* div phy_heads and cur_track is the track the zone table gives cur_addr.
C37_MechanicalConsistency ==
    (FreshlyApplied /\ SpeedModel(hdd)) =>
        /\ hdd.cur_track = TrackIn(ZoneOf(hdd, hdd.cur_addr), hdd.cur_addr)
        /\ hdd.cur_cylinder = hdd.cur_track \div hdd.phy_heads

\* After a timing call and another call the head is on a track past the
\* first, of a cylinder past the first, on a drive with several heads.
C37_Witness ==
    /\ FreshlyApplied /\ SpeedModel(hdd)
    /\ Len(trail) = 2 /\ trail[1].op \in {"read", "write"}
    /\ hdd.phy_heads > 1
    /\ hdd.cur_cylinder > 0 /\ hdd.cur_track > hdd.cur_cylinder
    /\ hdd.cur_track = TrackIn(ZoneOf(hdd, hdd.cur_addr), hdd.cur_addr)
    /\ hdd.cur_cylinder = hdd.cur_track \div hdd.phy_heads

\* The tracks of zone z of hd: cylinders * heads.
ZoneTracks(hd, z) == hd.zones[z].cylinders * hd.phy_heads

\* C38: for consecutive zones, zone[i+1].start_track = zone[i].start_track
\* + zone[i].cylinders * heads, so that the track indexes of a zone stay
\* below the start_track of the next and two sectors of different zones
\* never get the same track index.
C38_TrackNumbering ==
    SpeedModel(hdd) =>
        \A i \in 0 .. hdd.num_zones - 2 :
            /\ hdd.zones[i + 1].start_track
                   = hdd.zones[i].start_track + ZoneTracks(hdd, i)
            /\ TrackIn(hdd.zones[i], hdd.zones[i].end_sector)
                   < hdd.zones[i + 1].start_track

ValidSegments(hd) == CacheSegments(hd) \ InvalidSegments(hd)

\* The half-open windows of segments i and j of hd have no sector in common.
WindowsDisjoint(hd, i, j) ==
    \/ hd.cache.segments[i].lba_addr + hd.cache.segment_size
           <= hd.cache.segments[j].lba_addr
    \/ hd.cache.segments[j].lba_addr + hd.cache.segment_size
           <= hd.cache.segments[i].lba_addr

\* C39: in every reachable state the windows [lba_addr, lba_addr +
\* segment_size) of distinct valid segments are pairwise disjoint.
C39_WindowsDisjoint ==
    \A i \in ValidSegments(hdd), j \in ValidSegments(hdd) :
        i # j => WindowsDisjoint(hdd, i, j)

\* The segments of hd whose lru counter is 0.
MostRecent(hd) == {i \in CacheSegments(hd) : hd.cache.segments[i].lru = 0}

\* The lru counters of hd are a strict recency order.
RecencyOrder(hd) ==
    /\ \A i \in ValidSegments(hd), j \in ValidSegments(hd) :
           i # j => hd.cache.segments[i].lru # hd.cache.segments[j].lru
    /\ \A i \in InvalidSegments(hd), j \in ValidSegments(hd) :
           hd.cache.segments[i].lru > hd.cache.segments[j].lru
    /\ ValidSegments(hd) # {} => Cardinality(MostRecent(hd)) = 1

\* C40: in every state reachable after hdd_preset_apply the valid segments
\* have pairwise distinct lru, every invalid segment's lru is greater than
\* every valid segment's, and once a read has gone through the cache exactly
\* one segment has lru 0, the one that served the most recent read.
C40_RecencyOrder ==
    /\ RecencyOrder(hdd)
    /\ ClassifiedRead => MostRecent(hdd) = {last.seg}

====
